---- MODULE Spec2Model ----
(***************************************************************************)
(* A model of the appointment booking assistant:                           *)
(*   src/ai_agent/scheduler.py   SchedulingAgent                           *)
(*   src/ui/interface.py         AppointmentUI.book_appointment            *)
(*   src/database/models.py      User, TimeSlot, Appointment               *)
(*   src/app.py                  process_query                             *)
(*   src/voice/speech_recognition.py  VoiceHandler.process_voice_command   *)
(*   src/ui/interface.py         AppointmentUI.process_voice_booking       *)
(*   src/notifications/notifier.py  NotificationSystem.send_confirmation   *)
(*                                                                         *)
(* Time is counted in minutes; a datetime is the number of minutes since   *)
(* 00:00 of day 0, so that Date(t) is its calendar day and Clock(t) its    *)
(* clock time.                                                             *)
(*                                                                         *)
(* The specifications share the variables:                                 *)
(*   Spec         book_appointment calls, each run to completion           *)
(*   SpecSuggest  the slot searches on the stores that bookings leave      *)
(*   SpecConc     two book_appointment calls whose store statements        *)
(*                interleave                                               *)
(*   SpecSlots    get_available_slots applied to bounded inputs            *)
(*   SpecRank     rank_slots applied to bounded lists of slots             *)
(*   SpecConflicts  handle_conflicts applied to bounded lists of candidates *)
(*   SpecApp      process_query calls of src/app.py on the rows of demo.csv *)
(*   SpecVoice    process_voice_booking calls on the stores of SpecSuggest *)
(*   SpecVoiceDate  the date parse of process_voice_booking on bounded inputs *)
(***************************************************************************)
EXTENDS Integers, Sequences, FiniteSets, TLC

VARIABLES
    users,          \* table users: sequence of [id, name, email]
    time_slots,     \* table time_slots: id -> [provider_id, start_time, end_time, is_available]
    appointments,   \* table appointments: sequence of rows, in insertion order
    procs,          \* SpecConc: each concurrent caller's position and locals
    input,          \* the arguments a pure operation is applied to
    last,           \* the last completed call: its name, arguments and result
    ncalls,         \* number of calls started
    bookings,       \* app.py: the rows of demo.csv, in file order
    outbox          \* notifier.py: the confirmations handed to _send_email

vars == <<users, time_slots, appointments, procs, input, last, ncalls,
          bookings, outbox>>

-----------------------------------------------------------------------------
(* Bounds of the model *)

\* book_appointment calls per behaviour of Spec
MaxCalls == 2

\* get_available_slots: windows per schedule, largest window length and
\* largest slot duration, in minutes
MaxWindows == 2
MaxLength == 5
MaxDuration == 2

\* rank_slots: slots per list
MaxRanked == 2

\* handle_conflicts: candidates per list
MaxCandidates == 3

\* process_query calls per behaviour of SpecApp
MaxQueries == 3

-----------------------------------------------------------------------------
(* Time *)

MinutesPerDay == 24 * 60

Date(t) == t \div MinutesPerDay

Clock(t) == t % MinutesPerDay

At(day, hour, minute) == day * MinutesPerDay + hour * 60 + minute

\* Python None
None == [none |-> TRUE]

-----------------------------------------------------------------------------
(* The store *)

Providers == {1, 2}

Emails == {"ann@example.com", "bob@example.com"}

Names == {"Ann", "Bob"}

\* One row of time_slots; the slots of this model are 30 minutes long.
Slot(provider_id, day, hour, minute, is_available) ==
    [provider_id |-> provider_id,
     start_time |-> At(day, hour, minute),
     end_time |-> At(day, hour, minute) + 30,
     is_available |-> is_available]

\* The time_slots table the model starts from, indexed by primary key.
SeedSlots ==
    << Slot(1, 0, 9, 0, TRUE),
       Slot(1, 1, 9, 0, TRUE),
       Slot(1, 1, 9, 30, FALSE),
       Slot(1, 1, 10, 0, TRUE),
       Slot(2, 1, 9, 0, TRUE),
       Slot(1, 2, 9, 0, TRUE),
       Slot(1, 3, 9, 0, TRUE),
       Slot(1, 3, 9, 0, TRUE),
       Slot(1, 5, 14, 0, TRUE),
       Slot(1, 8, 9, 0, TRUE),
       Slot(1, 9, 9, 0, TRUE),
       Slot(2, 9, 9, 0, TRUE) >>

SlotIds == DOMAIN SeedSlots

\* Slot ids the model's callers book: no row (0), available slots of both
\* providers, and the slot that is unavailable from the start (3).
BookSlotArgs == {0, 2, 3, 5, 6}

Impls == {"scheduler", "ui"}

-----------------------------------------------------------------------------
(* Results *)

MsgNoLongerAvailable == "Selected slot is no longer available"

MsgBooked == "Appointment booked successfully!"

\* scheduler.py line 241 and interface.py line 283: the except handlers
MsgError == "Error booking appointment: IntegrityError"

MsgErrorUI == "Error booking appointment. Please try again."

MsgFillIn == "Please fill in all required fields"

\* scheduler.py returns a dict {success, message[, details]}; interface.py
\* returns the message itself, a str.
Failure(impl, message) ==
    IF impl = "scheduler"
    THEN [type |-> "dict", success |-> FALSE, message |-> message]
    ELSE [type |-> "str", message |-> message]

Booked(impl, slot) ==
    IF impl = "scheduler"
    THEN [type |-> "dict", success |-> TRUE, message |-> MsgBooked,
          details |-> [date |-> Date(slot.start_time),
                       time |-> Clock(slot.start_time),
                       provider |-> slot.provider_id]]
    ELSE [type |-> "str", message |-> MsgBooked]

Raised(impl) ==
    Failure(impl, IF impl = "scheduler" THEN MsgError ELSE MsgErrorUI)

IsSuccess(r) == r.message = MsgBooked

-----------------------------------------------------------------------------
(* The store statements of book_appointment *)

\* A lookup that lost its filter on email: the latest user, whoever it is.
QueryUserAnyEmail(us, user_email) ==
    IF us = <<>> THEN 0 ELSE us[Len(us)].id

\* db.query(User).filter(User.email == user_email).first(): the id of the
\* first row with that email, 0 for None.
QueryUser(us, user_email) ==
    LET hits == {i \in DOMAIN us : us[i].email = user_email}
    IN IF hits = {} THEN 0
       ELSE us[CHOOSE i \in hits : \A j \in hits : i <= j].id

\* users.email is UNIQUE: INSERT of a second row with an email raises.
InsertUserRaises(us, user_email) ==
    \E i \in DOMAIN us : us[i].email = user_email

\* db.add(User(name=..., email=...)); db.commit()
InsertUser(us, user_name, user_email) ==
    Append(us, [id |-> Len(us) + 1, name |-> user_name, email |-> user_email])

\* A lookup that does not look at is_available.
QuerySlotAnyRow(ts, slot_id) ==
    IF slot_id \in DOMAIN ts THEN slot_id ELSE 0

\* The slot lookup: the row with that id if it is available, 0 for None.
\* scheduler.py filters on is_available in the query, interface.py tests
\* the flag of the row it loaded.
QuerySlot(ts, slot_id) ==
    IF slot_id \in DOMAIN ts /\ ts[slot_id].is_available THEN slot_id ELSE 0

\* Appointment(user_id, provider_id, datetime=slot.start_time,
\* duration_minutes=30); status defaults to 'booked'. slot_id is not a column
\* of the table: it records the slot the row was created from.
NewAppointment(ap, user_id, provider_id, ts, slot_id) ==
    [id |-> Len(ap) + 1,
     user_id |-> user_id,
     provider_id |-> provider_id,
     datetime |-> ts[slot_id].start_time,
     duration_minutes |-> 30,
     status |-> "booked",
     slot_id |-> slot_id]

\* A commit that leaves the flag as it was.
MarkBookedNot(ts, slot_id) == ts

\* slot.is_available = False
MarkBooked(ts, slot_id) ==
    [ts EXCEPT ![slot_id].is_available = FALSE]

\* interface.py: if not all([user_name, user_email, provider_id, slot_id])
MissingField(impl, slot_id) ==
    impl = "ui" /\ slot_id = 0

-----------------------------------------------------------------------------
(* book_appointment, run to completion *)

\* The store and the result after one call on the store <<us, ts, ap>>.
BookOutcome(impl, us, ts, ap, user_name, user_email, provider_id, slot_id) ==
    IF MissingField(impl, slot_id)
    THEN [users |-> us, time_slots |-> ts, appointments |-> ap,
          result |-> Failure(impl, MsgFillIn)]
    ELSE
    LET found == QueryUser(us, user_email)
        us1 == IF found = 0 THEN InsertUser(us, user_name, user_email) ELSE us
        user_id == IF found = 0 THEN Len(us1) ELSE found
        slot == QuerySlot(ts, slot_id)
    IN IF found = 0 /\ InsertUserRaises(us, user_email)
       THEN [users |-> us, time_slots |-> ts, appointments |-> ap,
             result |-> Raised(impl)]
       ELSE IF slot = 0
       THEN [users |-> us1, time_slots |-> ts, appointments |-> ap,
             result |-> Failure(impl, MsgNoLongerAvailable)]
       ELSE [users |-> us1,
             time_slots |-> MarkBooked(ts, slot),
             appointments |->
                 Append(ap, NewAppointment(ap, user_id, provider_id, ts, slot)),
             result |-> Booked(impl, ts[slot])]

BookAppointment(impl, user_name, user_email, provider_id, slot_id) ==
    /\ ncalls < MaxCalls
    /\ LET out == BookOutcome(impl, users, time_slots, appointments,
                              user_name, user_email, provider_id, slot_id)
       IN /\ users' = out.users
          /\ time_slots' = out.time_slots
          /\ appointments' = out.appointments
          /\ last' = [op |-> "book_appointment", impl |-> impl,
                      user_name |-> user_name, user_email |-> user_email,
                      provider_id |-> provider_id, slot_id |-> slot_id,
                      result |-> out.result]
    /\ ncalls' = ncalls + 1
    /\ UNCHANGED <<procs, input, bookings, outbox>>

SchedulerBookAppointment ==
    \E user_name \in Names, user_email \in Emails,
       provider_id \in Providers, slot_id \in BookSlotArgs :
        BookAppointment("scheduler", user_name, user_email, provider_id, slot_id)

UIBookAppointment ==
    \E user_name \in Names, user_email \in Emails,
       provider_id \in Providers, slot_id \in BookSlotArgs :
        BookAppointment("ui", user_name, user_email, provider_id, slot_id)

-----------------------------------------------------------------------------
(* Scores: the rational num/den, kept exact as <<num, den>> *)

Gt(a, b) == a[1] * b[2] > b[1] * a[2]

\* suggest_slots: optimal_slot['score'] > 0.8
Threshold == <<4, 5>>

-----------------------------------------------------------------------------
(* find_optimal_slot *)

PreferredDates == {1, 2}

\* "9 AM" (as "2 PM" and "5 PM", the times the voice path asks for) parses
\* with '%I %p' and "09:10" with '%H:%M'; "10:00 AM" holds
\* 'am' and fails '%I %p'; "morning", "afternoon", "evening" and "sometime"
\* hold neither 'am' nor 'pm' and fail '%H:%M'.
PreferredTimes ==
    {"9 AM", "09:10", "10:00 AM", "morning", "afternoon", "evening", "sometime"}

NoTime == 0 - 1

\* Lines 131-141: the clock time of the preference in minutes, NoTime when
\* strptime raised (the bare except leaves specific_time = None).
ParseSpecificTime(preferred_time) ==
    CASE preferred_time = "9 AM" -> 9 * 60
      [] preferred_time = "2 PM" -> 14 * 60
      [] preferred_time = "5 PM" -> 17 * 60
      [] preferred_time = "09:10" -> 9 * 60 + 10
      [] OTHER -> NoTime

\* The first key of time_ranges, in dict order, that occurs in the
\* preference text; its band as <<start, end>> in minutes; <<>> if none.
NamedBand(preferred_time) ==
    CASE preferred_time = "morning" -> <<9 * 60, 12 * 60>>
      [] preferred_time = "afternoon" -> <<13 * 60, 17 * 60>>
      [] preferred_time = "evening" -> <<17 * 60, 20 * 60>>
      [] OTHER -> <<>>

\* Lines 146-166: the score of one slot.
Score(start_time, preferred_time) ==
    LET specific_time == ParseSpecificTime(preferred_time)
        slot_time == Clock(start_time)
        band == NamedBand(preferred_time)
    IN IF specific_time # NoTime
       THEN LET d == slot_time - specific_time
                minutes == IF d < 0 THEN 0 - d ELSE d
            IN <<60, 60 + minutes>>
       ELSE IF band # <<>> /\ band[1] <= slot_time /\ slot_time <= band[2]
            THEN <<1, 1>>
            ELSE <<1, 2>>

Ids(ts) == [i \in 1..Len(ts) |-> i]

\* Lines 114-118: the available slots of the provider on the date, in
\* primary key order. (TimeSlot.start_time.date() is taken of the mapped
\* column, not of a row value; were the query itself to raise, the handler
\* of lines 184-186 would return None as well.)
QueryDaySlots(ts, provider_id, preferred_date) ==
    LET Hit(i) == /\ ts[i].provider_id = provider_id
                  /\ Date(ts[i].start_time) = preferred_date
                  /\ ts[i].is_available
    IN SelectSeq(Ids(ts), Hit)

\* Lines 124-128. scheduler.py line 3 imports the class datetime.datetime as
\* `datetime`, so datetime.time(9, 0) applies the method datetime.time to
\* the int 9 and raises TypeError, whatever the arguments of the call.
TimeRangesRaises == TRUE

\* Lines 143-180: score every slot, sort by score descending (list.sort is
\* stable) and return the head with its score.
BestSlot(ts, slots, provider_id, preferred_time) ==
    LET sc(k) == Score(ts[slots[k]].start_time, preferred_time)
        best == CHOOSE k \in DOMAIN slots :
                    /\ \A j \in DOMAIN slots : ~Gt(sc(j), sc(k))
                    /\ \A j \in DOMAIN slots : j < k => Gt(sc(k), sc(j))
    IN [slot_id |-> slots[best],
        provider_id |-> provider_id,
        start_time |-> ts[slots[best]].start_time,
        end_time |-> ts[slots[best]].end_time,
        score |-> sc(best)]

\* find_optimal_slot: None when the query finds nothing (line 121), and
\* None from the handler of lines 184-186 when the body raises.
find_optimal_slot(ts, provider_id, preferred_date, preferred_time) ==
    LET slots == QueryDaySlots(ts, provider_id, preferred_date)
    IN IF slots = <<>> THEN None
       ELSE IF TimeRangesRaises THEN None
       ELSE BestSlot(ts, slots, provider_id, preferred_time)

-----------------------------------------------------------------------------
(* find_alternative_slots *)

\* window_days: int = 7
WindowDays == 7

\* if len(alternative_slots) >= 5: break
AltLimit == 5

\* Lines 268-276, the filter: start_time >= combine(start_date, 00:00) and
\* start_time <= combine(end_date, 23:59:59.999999), the last instant of
\* end_date = start_date + window_days.
InWindow(start_time, preferred_date, window_days) ==
    /\ start_time >= At(preferred_date, 0, 0)
    /\ start_time < At(preferred_date + window_days + 1, 0, 0)

\* A query that lost its filter on is_available.
QueryWindowSlotsAnyFlag(ts, provider_id, preferred_date, window_days) ==
    {i \in DOMAIN ts : /\ ts[i].provider_id = provider_id
                       /\ InWindow(ts[i].start_time, preferred_date, window_days)}

QueryWindowSlots(ts, provider_id, preferred_date, window_days) ==
    {i \in DOMAIN ts : /\ ts[i].provider_id = provider_id
                       /\ InWindow(ts[i].start_time, preferred_date, window_days)
                       /\ ts[i].is_available}

\* order_by(TimeSlot.start_time): every order of the rows S that ascends in
\* start_time; rows with equal start_time come in either order.
RECURSIVE OrderByStart(_, _)
OrderByStart(ts, S) ==
    IF S = {} THEN {<<>>}
    ELSE LET firsts == {i \in S : \A j \in S :
                            ts[i].start_time <= ts[j].start_time}
         IN UNION {{<<i>> \o rest : rest \in OrderByStart(ts, S \ {i})} :
                   i \in firsts}

\* Lines 278-288: the loop copies rows until the list holds AltLimit.
TakeAlternatives(ts, rows, provider_id) ==
    [k \in 1..(IF Len(rows) < AltLimit THEN Len(rows) ELSE AltLimit) |->
        [slot_id |-> rows[k],
         provider_id |-> provider_id,
         start_time |-> ts[rows[k]].start_time,
         end_time |-> ts[rows[k]].end_time]]

\* The lists find_alternative_slots can return on the store ts.
find_alternative_slots(ts, provider_id, preferred_date, window_days) ==
    {TakeAlternatives(ts, rows, provider_id) :
        rows \in OrderByStart(ts,
            QueryWindowSlots(ts, provider_id, preferred_date, window_days))}

-----------------------------------------------------------------------------
(* suggest_slots *)

\* Lines 304-329: the result, given what the two searches returned.
SuggestResult(optimal_slot, alternative_slots) ==
    IF optimal_slot # None /\ Gt(optimal_slot.score, Threshold)
    THEN [available |-> TRUE, slot |-> optimal_slot,
          message |-> "Found an available slot!"]
    ELSE IF alternative_slots # <<>>
    THEN [available |-> FALSE,
          message |-> "Sorry, no available slots found for your preferred time.",
          alternative_slots |-> alternative_slots]
    ELSE [available |-> FALSE,
          message |-> "Sorry, no available slots found. Please try a different date or provider.",
          alternative_slots |-> <<>>]

\* Lines 300-329, given the list the alternative search returned.
suggest_slots(ts, provider_id, preferred_date, preferred_time, alternative_slots) ==
    SuggestResult(find_optimal_slot(ts, provider_id, preferred_date,
                                    preferred_time),
                  alternative_slots)

FindOptimalSlot ==
    \E provider_id \in Providers, preferred_date \in PreferredDates,
       preferred_time \in PreferredTimes :
        /\ last' = [op |-> "find_optimal_slot", provider_id |-> provider_id,
                    preferred_date |-> preferred_date,
                    preferred_time |-> preferred_time,
                    result |-> find_optimal_slot(time_slots, provider_id,
                                                 preferred_date, preferred_time)]
        /\ UNCHANGED <<users, time_slots, appointments, procs, input, ncalls,
                     bookings, outbox>>

FindAlternativeSlots ==
    \E provider_id \in Providers, preferred_date \in PreferredDates :
      \E alternative_slots \in find_alternative_slots(time_slots, provider_id,
                                                      preferred_date, WindowDays) :
        /\ last' = [op |-> "find_alternative_slots", provider_id |-> provider_id,
                    preferred_date |-> preferred_date,
                    result |-> alternative_slots]
        /\ UNCHANGED <<users, time_slots, appointments, procs, input, ncalls,
                     bookings, outbox>>

SuggestSlots ==
    \E provider_id \in Providers, preferred_date \in PreferredDates,
       preferred_time \in PreferredTimes :
      \E alternative_slots \in find_alternative_slots(time_slots, provider_id,
                                                      preferred_date, WindowDays) :
        /\ last' = [op |-> "suggest_slots", provider_id |-> provider_id,
                    preferred_date |-> preferred_date,
                    preferred_time |-> preferred_time,
                    result |-> suggest_slots(time_slots, provider_id, preferred_date,
                                             preferred_time, alternative_slots)]
        /\ UNCHANGED <<users, time_slots, appointments, procs, input, ncalls,
                     bookings, outbox>>

\* suggest_slots while the store fails: the query of find_optimal_slot, of
\* find_alternative_slots, or both, raise. Each search catches the exception
\* itself: find_optimal_slot returns None (lines 184-186) and
\* find_alternative_slots returns its list, still empty (lines 290-293).
SuggestSlotsLookupRaises ==
    \E provider_id \in Providers, preferred_date \in PreferredDates,
       preferred_time \in PreferredTimes,
       optimal_raises \in BOOLEAN, alternatives_raise \in BOOLEAN :
      /\ optimal_raises \/ alternatives_raise
      /\ \E alternative_slots \in
              (IF alternatives_raise THEN {<<>>}
               ELSE find_alternative_slots(time_slots, provider_id,
                                           preferred_date, WindowDays)) :
          LET optimal_slot ==
                  IF optimal_raises THEN None
                  ELSE find_optimal_slot(time_slots, provider_id,
                                         preferred_date, preferred_time)
          IN last' = [op |-> "suggest_slots, lookup raises",
                      provider_id |-> provider_id,
                      preferred_date |-> preferred_date,
                      preferred_time |-> preferred_time,
                      optimal_raises |-> optimal_raises,
                      alternatives_raise |-> alternatives_raise,
                      result |-> SuggestResult(optimal_slot, alternative_slots)]
      /\ UNCHANGED <<users, time_slots, appointments, procs, input, ncalls,
                     bookings, outbox>>

-----------------------------------------------------------------------------
(* Spec: every call runs to completion *)

Procs == {1, 2}

IdleProc == [pc |-> "start"]

NoInput == [none |-> TRUE]

Init ==
    /\ users = <<>>
    /\ time_slots = SeedSlots
    /\ appointments = <<>>
    /\ procs = [p \in Procs |-> IdleProc]
    /\ input = NoInput
    /\ last = [op |-> "init"]
    /\ ncalls = 0
    /\ bookings = <<>>
    /\ outbox = <<>>

Next ==
    \/ SchedulerBookAppointment
    \/ UIBookAppointment

Spec == Init /\ [][Next]_vars

-----------------------------------------------------------------------------
(* SpecSuggest: the slot searches, on every store that bookings of the     *)
(* slots VaryingSlots leave behind                                         *)

VaryingSlots == {2, 4, 6, 7, 8, 9, 10}

\* The store after "Ann" has booked the slots B, lowest id first.
RECURSIVE BookedStore(_, _)
BookedStore(st, B) ==
    IF B = {} THEN st
    ELSE LET slot_id == CHOOSE i \in B : \A j \in B : i <= j
             out == BookOutcome("scheduler", st.users, st.time_slots,
                                st.appointments, "Ann", "ann@example.com",
                                SeedSlots[slot_id].provider_id, slot_id)
         IN BookedStore([users |-> out.users, time_slots |-> out.time_slots,
                         appointments |-> out.appointments], B \ {slot_id})

InitSuggest ==
    \E B \in SUBSET VaryingSlots :
        LET st == BookedStore([users |-> <<>>, time_slots |-> SeedSlots,
                               appointments |-> <<>>], B)
        IN /\ users = st.users
           /\ time_slots = st.time_slots
           /\ appointments = st.appointments
           /\ procs = [p \in Procs |-> IdleProc]
           /\ input = NoInput
           /\ last = [op |-> "init"]
           /\ ncalls = 0
           /\ bookings = <<>>
           /\ outbox = <<>>

NextSuggest ==
    \/ FindOptimalSlot
    \/ FindAlternativeSlots
    \/ SuggestSlots
    \/ SuggestSlotsLookupRaises

SpecSuggest == InitSuggest /\ [][NextSuggest]_vars

-----------------------------------------------------------------------------
(* SpecConc: two book_appointment calls, each in a session of its own      *)
(* (with SessionLocal() as db), their store statements interleaved. No     *)
(* statement of the call takes a lock: the slot is read by a plain SELECT  *)
(* and written by an UPDATE that names the row by its id.                  *)

\* Slot ids the concurrent callers ask for: no row, an available slot and
\* the slot that is unavailable from the start.
ConcSlotArgs == {0, 2, 3}

CallerName(p) == IF p = 1 THEN "Ann" ELSE "Bob"

Finish(p, result) ==
    procs' = [procs EXCEPT ![p] = [@ EXCEPT !.pc = "done", !.result = result]]

\* The call is made; interface.py returns at once on a missing field.
Call(p) ==
    /\ procs[p].pc = "start"
    /\ \E impl \in Impls, user_email \in Emails,
          provider_id \in Providers, slot_id \in ConcSlotArgs :
        procs' = [procs EXCEPT ![p] =
            [pc |-> IF MissingField(impl, slot_id) THEN "done" ELSE "query_user",
             impl |-> impl,
             user_name |-> CallerName(p),
             user_email |-> user_email,
             provider_id |-> provider_id,
             slot_id |-> slot_id,
             user_id |-> 0,
             slot |-> 0,
             result |-> IF MissingField(impl, slot_id)
                        THEN Failure(impl, MsgFillIn) ELSE None]]
    /\ ncalls' = ncalls + 1
    /\ UNCHANGED <<users, time_slots, appointments, input, last, bookings, outbox>>

\* user = db.query(User).filter(User.email == user_email).first()
QueryUserStep(p) ==
    /\ procs[p].pc = "query_user"
    /\ LET found == QueryUser(users, procs[p].user_email)
       IN procs' = [procs EXCEPT ![p] =
              [@ EXCEPT !.user_id = found,
                        !.pc = IF found = 0 THEN "insert_user" ELSE "query_slot"]]
    /\ UNCHANGED <<users, time_slots, appointments, input, last, ncalls,
                     bookings, outbox>>

\* db.add(user); db.commit(): raises when the email has been inserted since
\* the lookup, and the except handler turns that into the error result.
InsertUserStep(p) ==
    /\ procs[p].pc = "insert_user"
    /\ IF InsertUserRaises(users, procs[p].user_email)
       THEN /\ Finish(p, Raised(procs[p].impl))
            /\ UNCHANGED users
       ELSE /\ users' = InsertUser(users, procs[p].user_name, procs[p].user_email)
            /\ procs' = [procs EXCEPT ![p] =
                   [@ EXCEPT !.user_id = Len(users) + 1, !.pc = "query_slot"]]
    /\ UNCHANGED <<time_slots, appointments, input, last, ncalls,
                     bookings, outbox>>

\* slot = db.query(TimeSlot)...first(); if not slot: return the refusal
QuerySlotStep(p) ==
    /\ procs[p].pc = "query_slot"
    /\ LET slot == QuerySlot(time_slots, procs[p].slot_id)
       IN IF slot = 0
          THEN Finish(p, Failure(procs[p].impl, MsgNoLongerAvailable))
          ELSE procs' = [procs EXCEPT ![p] =
                   [@ EXCEPT !.slot = slot, !.pc = "commit"]]
    /\ UNCHANGED <<users, time_slots, appointments, input, last, ncalls,
                     bookings, outbox>>

\* db.add(appointment); slot.is_available = False; db.commit(), on the slot
\* row loaded by the lookup: the UPDATE names the row by id alone.
CommitStep(p) ==
    /\ procs[p].pc = "commit"
    /\ appointments' = Append(appointments,
           NewAppointment(appointments, procs[p].user_id, procs[p].provider_id,
                          time_slots, procs[p].slot))
    /\ time_slots' = MarkBooked(time_slots, procs[p].slot)
    /\ Finish(p, Booked(procs[p].impl, time_slots[procs[p].slot]))
    /\ UNCHANGED <<users, input, last, ncalls,
                     bookings, outbox>>

NextConc ==
    \E p \in Procs :
        \/ Call(p)
        \/ QueryUserStep(p)
        \/ InsertUserStep(p)
        \/ QuerySlotStep(p)
        \/ CommitStep(p)

\* The two calls start on a store in which "Ann" is registered already.
InitConc ==
    /\ users = InsertUser(<<>>, "Ann", "ann@example.com")
    /\ time_slots = SeedSlots
    /\ appointments = <<>>
    /\ procs = [p \in Procs |-> IdleProc]
    /\ input = NoInput
    /\ last = [op |-> "init"]
    /\ ncalls = 0
    /\ bookings = <<>>
    /\ outbox = <<>>

SpecConc == InitConc /\ [][NextConc]_vars

-----------------------------------------------------------------------------
(* get_available_slots *)

\* A start that grows the slots from the second piece of the window on.
AppointmentStartNext(slot_start, i, duration_minutes) ==
    slot_start + (i + 1) * duration_minutes

\* Line 31: appointment_start = slot_start + timedelta(minutes=i * duration)
AppointmentStart(slot_start, i, duration_minutes) ==
    slot_start + i * duration_minutes

\* A test that lets in the window that begins at the current time.
ConsideredFromNow(slot, current_time) ==
    slot.is_available /\ slot.start_time >= current_time

\* Line 24: if slot['is_available'] and slot_start > current_time
Considered(slot, current_time) ==
    slot.is_available /\ slot.start_time > current_time

\* Lines 26-27: int((slot_end - slot_start) minutes / duration_minutes);
\* int() truncates towards zero.
NumPossibleAppointments(slot, duration_minutes) ==
    LET slot_duration == slot.end_time - slot.start_time
    IN IF slot_duration >= 0
       THEN slot_duration \div duration_minutes
       ELSE 0 - ((0 - slot_duration) \div duration_minutes)

\* Lines 30-39: the slots of one considered window.
WindowSlots(slot, duration_minutes) ==
    LET n == NumPossibleAppointments(slot, duration_minutes)
        piece(i) ==
            LET appointment_start ==
                    AppointmentStart(slot.start_time, i, duration_minutes)
            IN [start_time |-> appointment_start,
                end_time |-> appointment_start + duration_minutes,
                duration |-> duration_minutes]
        InWindowEnd(a) == a.end_time <= slot.end_time
    IN SelectSeq([k \in 1..(IF n > 0 THEN n ELSE 0) |-> piece(k - 1)], InWindowEnd)

\* Lines 17-41: the loop over provider_schedule.
RECURSIVE get_available_slots(_, _, _)
get_available_slots(provider_schedule, duration_minutes, current_time) ==
    IF provider_schedule = <<>> THEN <<>>
    ELSE (IF Considered(Head(provider_schedule), current_time)
          THEN WindowSlots(Head(provider_schedule), duration_minutes)
          ELSE <<>>)
         \o get_available_slots(Tail(provider_schedule), duration_minutes,
                                current_time)

-----------------------------------------------------------------------------
(* SpecSlots: get_available_slots on bounded schedules *)

\* Window starts before, at and after the current time.
WindowStarts == {0, 1, 2}

CurrentTimes == {1}

Windows ==
    {[start_time |-> s, end_time |-> s + l, is_available |-> a] :
        s \in WindowStarts, l \in 0..MaxLength, a \in BOOLEAN}

Schedules == UNION {[1..n -> Windows] : n \in 0..MaxWindows}

InitSlots ==
    /\ users = <<>>
    /\ time_slots = <<>>
    /\ appointments = <<>>
    /\ procs = [p \in Procs |-> IdleProc]
    /\ input \in [provider_schedule : Schedules,
                  duration_minutes : 1..MaxDuration,
                  current_time : CurrentTimes]
    /\ last = [op |-> "init"]
    /\ ncalls = 0
    /\ bookings = <<>>
    /\ outbox = <<>>

GetAvailableSlots ==
    /\ last' = [op |-> "get_available_slots",
                result |-> get_available_slots(input.provider_schedule,
                                               input.duration_minutes,
                                               input.current_time)]
    /\ UNCHANGED <<users, time_slots, appointments, procs, input, ncalls,
                     bookings, outbox>>

NextSlots == GetAvailableSlots

SpecSlots == InitSlots /\ [][NextSlots]_vars

-----------------------------------------------------------------------------
(* rank_slots *)

\* Exact equality of two scores.
Eq(a, b) == a[1] * b[2] = b[1] * a[2]

\* Line 56: time_diff in minutes of clock time, score = 1 / (1 + time_diff).
RankScore(start_time, preferred_time) ==
    LET d == Clock(start_time) - preferred_time
        time_diff == IF d < 0 THEN 0 - d ELSE d
    IN <<1, 1 + time_diff>>

\* Lines 52-57: the loop writes slot['score'] into every dict of the list
\* when a preferred time is given (a clock time in minutes), and leaves the
\* list alone when it is absent (NoTime).
ScoreSlots(available_slots, preferred_time) ==
    IF preferred_time = NoTime THEN available_slots
    ELSE [k \in DOMAIN available_slots |->
            [start_time |-> available_slots[k].start_time,
             end_time |-> available_slots[k].end_time,
             score |-> RankScore(available_slots[k].start_time, preferred_time)]]

\* key=lambda x: x.get('score', 0)
ScoreKey(slot) == IF "score" \in DOMAIN slot THEN slot.score ELSE <<0, 1>>

\* sorted(..., reverse=True) is stable: x goes behind every slot of the
\* sorted rest whose key is strictly greater, before all others.
InsertByScore(x, sorted) ==
    LET ahead == {k \in DOMAIN sorted :
                     \A j \in 1..k : Gt(ScoreKey(sorted[j]), ScoreKey(x))}
        n == Cardinality(ahead)
    IN SubSeq(sorted, 1, n) \o <<x>> \o SubSeq(sorted, n + 1, Len(sorted))

RECURSIVE SortByScore(_)
SortByScore(slots) ==
    IF slots = <<>> THEN <<>>
    ELSE InsertByScore(Head(slots), SortByScore(Tail(slots)))

\* Lines 47-61.
rank_slots(available_slots, preferred_time) ==
    IF available_slots = <<>> THEN <<>>
    ELSE SortByScore(ScoreSlots(available_slots, preferred_time))

-----------------------------------------------------------------------------
(* SpecRank: rank_slots on bounded lists of slots *)

\* Start times of the slots handed to rank_slots: clock times from 08:50 to
\* 09:30 on day 0, and 09:00 on day 1.
RankStarts == {At(0, 8, 50), At(0, 9, 0), At(0, 9, 10), At(0, 9, 30), At(1, 9, 0)}

\* user_preferences.get('preferred_time'): absent, or a clock time.
RankPreferences == {NoTime, 9 * 60, 9 * 60 + 10, 9 * 60 + 20}

RankSlot(start_time) ==
    [start_time |-> start_time, end_time |-> start_time + 30]

RankLists ==
    UNION {[1..n -> {RankSlot(t) : t \in RankStarts}] : n \in 0..MaxRanked}

InitRank ==
    /\ users = <<>>
    /\ time_slots = <<>>
    /\ appointments = <<>>
    /\ procs = [p \in Procs |-> IdleProc]
    /\ input \in [available_slots : RankLists]
    /\ last = [op |-> "init"]
    /\ ncalls = 0
    /\ bookings = <<>>
    /\ outbox = <<>>

\* One call of rank_slots on the list the caller holds; the dicts of that
\* list are the ones the call wrote the scores into.
RankSlots ==
    \E preferred_time \in RankPreferences :
        /\ last' = [op |-> "rank_slots",
                    available_slots |-> input.available_slots,
                    preferred_time |-> preferred_time,
                    result |-> rank_slots(input.available_slots, preferred_time)]
        /\ input' = [available_slots |->
                        ScoreSlots(input.available_slots, preferred_time)]
        /\ UNCHANGED <<users, time_slots, appointments, procs, ncalls,
                     bookings, outbox>>

NextRank == RankSlots

SpecRank == InitRank /\ [][NextRank]_vars

-----------------------------------------------------------------------------
(* handle_conflicts *)

\* An overlap test that only sees equal starts.
check_overlap_same_start(appt1, appt2) ==
    appt1.start_time = appt2.start_time

\* _check_overlap, lines 99-104.
check_overlap(appt1, appt2) ==
    /\ appt1.start_time < appt2.end_time
    /\ appt2.start_time < appt1.end_time

\* A sort that puts the later of two equal priorities first.
SortedPositionLaterFirst(candidates, i) ==
    1 + Cardinality({j \in DOMAIN candidates :
            \/ candidates[j].priority > candidates[i].priority
            \/ /\ candidates[j].priority = candidates[i].priority
               /\ j > i})

\* Line 83: the place of candidate i in sorted(..., key=priority,
\* reverse=True); the sort is stable, equal priorities keep input order.
SortedPosition(candidates, i) ==
    1 + Cardinality({j \in DOMAIN candidates :
            \/ candidates[j].priority > candidates[i].priority
            \/ /\ candidates[j].priority = candidates[i].priority
               /\ j < i})

\* sorted_appointments, as the input positions of its members.
sorted_appointments(candidates) ==
    [k \in DOMAIN candidates |->
        CHOOSE i \in DOMAIN candidates : SortedPosition(candidates, i) = k]

\* Lines 86-95: the candidates from place k of the sorted list on, each
\* appended to resolved unless it overlaps a member of resolved.
RECURSIVE Resolve(_, _, _, _)
Resolve(candidates, sorted, k, resolved) ==
    IF k > Len(sorted) THEN resolved
    ELSE LET appt == sorted[k]
             conflict == \E m \in DOMAIN resolved :
                             check_overlap(candidates[appt],
                                           candidates[resolved[m]])
         IN Resolve(candidates, sorted, k + 1,
                    IF conflict THEN resolved ELSE Append(resolved, appt))

\* A resolution that keeps the first of the sorted list and nothing else.
handle_conflicts_first_only(candidates) ==
    IF candidates = <<>> THEN <<>>
    ELSE <<sorted_appointments(candidates)[1]>>

\* handle_conflicts, lines 78-97: resolved_appointments, as the input
\* positions of its members (the list holds the caller's own dicts).
handle_conflicts(candidates) ==
    Resolve(candidates, sorted_appointments(candidates), 1, <<>>)

-----------------------------------------------------------------------------
(* SpecConflicts: handle_conflicts on bounded lists of candidates *)

ConflictStarts == 0..2
ConflictLengths == 1..2
Priorities == {1, 2}

Candidates ==
    {[start_time |-> s, end_time |-> s + n, priority |-> p] :
        s \in ConflictStarts, n \in ConflictLengths, p \in Priorities}

InitConflicts ==
    /\ users = <<>>
    /\ time_slots = <<>>
    /\ appointments = <<>>
    /\ procs = [p \in Procs |-> IdleProc]
    /\ input \in [appointments :
                    UNION {[1..n -> Candidates] : n \in 0..MaxCandidates}]
    /\ last = [op |-> "init"]
    /\ ncalls = 0
    /\ bookings = <<>>
    /\ outbox = <<>>

HandleConflicts ==
    /\ LET resolved == handle_conflicts(input.appointments)
       IN last' = [op |-> "handle_conflicts",
                   resolved |-> resolved,
                   result |-> [k \in DOMAIN resolved |->
                                  input.appointments[resolved[k]]]]
    /\ UNCHANGED <<users, time_slots, appointments, procs, input, ncalls,
                     bookings, outbox>>

NextConflicts == HandleConflicts

SpecConflicts == InitConflicts /\ [][NextConflicts]_vars

-----------------------------------------------------------------------------
(* app.py: process_query over the rows of demo.csv *)

\* The queries of the model. For each, what user_input.lower() holds of the
\* trigger words of lines 80-167, and what the regular expressions of lines
\* 82-88 and 126 find in it: dates \d{4}-\d{2}-\d{2}, times
\* \d{1,2}(?::\d{2})?\s*(?:am|pm), providers (?:with|for)\s+(dr\.\s*\w+|
\* ms\.\s*\w+), and booking numbers B\d{3} in user_input.upper().
QueryTable == <<
    [text |-> "Book an appointment with Dr. Smith on 2024-03-20 10:00 AM",
     words |-> {"book"},
     dates |-> <<"2024-03-20">>, times |-> <<"10:00 am">>,
     providers |-> <<"dr. smith">>, booking_numbers |-> <<>>],
    [text |-> "Cancel booking B001",
     words |-> {"book", "cancel", "booking"},
     dates |-> <<>>, times |-> <<>>,
     providers |-> <<>>, booking_numbers |-> <<"B001">>],
    [text |-> "What's the status of booking B001?",
     words |-> {"book", "booking", "status"},
     dates |-> <<>>, times |-> <<>>,
     providers |-> <<>>, booking_numbers |-> <<"B001">>],
    [text |-> "Show available slots for Dr. Smith on 2024-03-20",
     words |-> {"available", "slot"},
     dates |-> <<"2024-03-20">>, times |-> <<>>,
     providers |-> <<"dr. smith">>, booking_numbers |-> <<>>],
    [text |-> "Book with Dr. Smith on 2024-03-20 10 am",
     words |-> {"book"},
     dates |-> <<"2024-03-20">>, times |-> <<"10 am">>,
     providers |-> <<"dr. smith">>, booking_numbers |-> <<>>],
    [text |-> "Book with Dr. Smith on 2024-03-21 9:00 am",
     words |-> {"book"},
     dates |-> <<"2024-03-21">>, times |-> <<"9:00 am">>,
     providers |-> <<"dr. smith">>, booking_numbers |-> <<>>],
    [text |-> "Book with Dr. Jones on 2024-03-20 10:00 AM",
     words |-> {"book"},
     dates |-> <<"2024-03-20">>, times |-> <<"10:00 am">>,
     providers |-> <<"dr. jones">>, booking_numbers |-> <<>>],
    [text |-> "Schedule a visit",
     words |-> {"schedule"},
     dates |-> <<>>, times |-> <<>>,
     providers |-> <<>>, booking_numbers |-> <<>>],
    [text |-> "cancel B001",
     words |-> {"cancel"},
     dates |-> <<>>, times |-> <<>>,
     providers |-> <<>>, booking_numbers |-> <<"B001">>],
    [text |-> "cancel B009",
     words |-> {"cancel"},
     dates |-> <<>>, times |-> <<>>,
     providers |-> <<>>, booking_numbers |-> <<"B009">>],
    [text |-> "cancel my visit",
     words |-> {"cancel"},
     dates |-> <<>>, times |-> <<>>,
     providers |-> <<>>, booking_numbers |-> <<>>],
    [text |-> "show my appointments",
     words |-> {"appointments"},
     dates |-> <<>>, times |-> <<>>,
     providers |-> <<>>, booking_numbers |-> <<>>],
    [text |-> "hello",
     words |-> {},
     dates |-> <<>>, times |-> <<>>,
     providers |-> <<>>, booking_numbers |-> <<>>]>>

\* str.upper() of the time texts found.
Upper(s) ==
    CASE s = "10:00 am" -> "10:00 AM"
      [] s = "10 am" -> "10 AM"
      [] s = "9:00 am" -> "9:00 AM"

\* str.title() of the provider texts found.
Title(s) ==
    CASE s = "dr. smith" -> "Dr. Smith"
      [] s = "dr. jones" -> "Dr. Jones"


Queries == {QueryTable[k].text : k \in DOMAIN QueryTable}

Features(user_input) ==
    QueryTable[CHOOSE k \in DOMAIN QueryTable : QueryTable[k].text = user_input]

Digit(n) ==
    CASE n = 0 -> "0" [] n = 1 -> "1" [] n = 2 -> "2" [] n = 3 -> "3"
      [] n = 4 -> "4" [] n = 5 -> "5" [] n = 6 -> "6" [] n = 7 -> "7"
      [] n = 8 -> "8" [] n = 9 -> "9"

\* str(n), for n below 100
Str(n) == IF n < 10 THEN Digit(n) ELSE Digit(n \div 10) \o Digit(n % 10)

\* strftime("%Y-%m-%d") of the day d of March 2024
DateStr(d) == "2024-03-" \o Digit(d \div 10) \o Digit(d % 10)

MarchDays == 1..31

NoDate == 0

\* strptime(date, "%Y-%m-%d").
ParseDate(date) ==
    IF \E d \in MarchDays : DateStr(d) = date
    THEN CHOOSE d \in MarchDays : DateStr(d) = date
    ELSE NoDate

\* for hour in [9, 10, 11, 14, 15, 16]
Hours == <<9, 10, 11, 14, 15, 16>>

\* strftime("%I:%M %p") of the full hour h
HourStr(h) ==
    LET h12 == IF h > 12 THEN h - 12 ELSE h
    IN Digit(h12 \div 10) \o Digit(h12 % 10) \o ":00 "
         \o (IF h < 12 THEN "AM" ELSE "PM")

\* slot.strftime("%Y-%m-%d %I:%M %p")
SlotStr(d, h) == DateStr(d) \o " " \o HourStr(h)

\* The time texts of the queries that '%I:%M %p' parses: an hour of one or
\* two digits, a colon, minutes and the meridiem. "10 AM" has no minutes.
TimesWithMinutes == {"10:00 AM", "9:00 AM"}

\* Line 39: the date of strptime(current_slot, "%Y-%m-%d %I:%M %p"), NoDate
\* when strptime raises ValueError.
SlotDate(current_slot) ==
    IF \E d \in MarchDays, t \in TimesWithMinutes :
           current_slot = DateStr(d) \o " " \o t
    THEN CHOOSE d \in MarchDays : \E t \in TimesWithMinutes :
           current_slot = DateStr(d) \o " " \o t
    ELSE NoDate

\* A test that takes a row of any status for a booking of the slot.
IsConfirmedAnyStatus(df, provider, slot) ==
    \E k \in DOMAIN df : /\ df[k].service_provider_name = provider
                         /\ df[k].time_slot = slot

\* not df[(service_provider_name == provider) & (time_slot == slot) &
\*        (booking_status == 'Confirmed')].empty
IsConfirmed(df, provider, slot) ==
    \E k \in DOMAIN df : /\ df[k].service_provider_name = provider
                         /\ df[k].time_slot = slot
                         /\ df[k].booking_status = "Confirmed"

\* get_next_available_slot, lines 37-54, from the day of current_slot on:
\* all_slots, the slots of 7 days with no Confirmed row of the provider.
NextSlotsFrom(df, provider, day) ==
    LET generated == [n \in 1..(7 * Len(Hours)) |->
                         SlotStr(day + (n - 1) \div Len(Hours),
                                 Hours[((n - 1) % Len(Hours)) + 1])]
        Free(slot_str) == ~IsConfirmed(df, provider, slot_str)
    IN SelectSeq(generated, Free)

\* get_available_slots of app.py, lines 56-69, for a date that parses.
DayAvailableSlots(df, provider, date) ==
    LET generated == [n \in DOMAIN Hours |-> SlotStr(ParseDate(date), Hours[n])]
        Free(slot_str) == ~IsConfirmed(df, provider, slot_str)
    IN SelectSeq(generated, Free)

\* ', '.join(available_slots)
RECURSIVE Join(_)
Join(texts) ==
    IF Len(texts) = 1 THEN texts[1]
    ELSE texts[1] \o ", " \o Join(Tail(texts))

\* str(n).zfill(3), for n below 100
ZFill3(n) == IF n < 10 THEN "00" \o Digit(n) ELSE "0" \o Str(n)

\* What one call of process_query leaves behind: the rows of demo.csv, the
\* branch that ran and how it ended, and the response returned. When the
\* call raises, response names the exception and the file is as it was.
Reply(df, intent, outcome, response) ==
    [df |-> df, intent |-> intent, outcome |-> outcome, response |-> response]

\* Lines 80-122, the branch of 'book' / 'schedule'.
BookingBranch(df, f) ==
    IF f.dates = <<>> \/ f.times = <<>> \/ f.providers = <<>>
    THEN Reply(df, "booking", "missing details",
               "I need the date, time, and provider name to book an appointment. Could you please provide these details?")
    ELSE
      LET slot == f.dates[1] \o " " \o Upper(f.times[1])
          provider == Title(f.providers[1])
          of_provider == {k \in DOMAIN df : df[k].service_provider_name = provider}
      IN IF ~IsConfirmed(df, provider, slot)
         THEN IF of_provider = {}
              THEN \* line 107: .iloc[0] of an empty selection
                   Reply(df, "booking", "raised", "IndexError")
              ELSE
                LET new_booking == "B" \o ZFill3(Len(df) + 1)
                    first == CHOOSE k \in of_provider : \A j \in of_provider : k <= j
                    new_row == [booking_number |-> new_booking,
                                service_provider_name |-> provider,
                                booking_status |-> "Confirmed",
                                time_slot |-> slot,
                                service_provider_number |->
                                    df[first].service_provider_number]
                IN Reply(Append(df, new_row), "booking", "booked",
                         "Thank you for booking! Your appointment is confirmed for "
                           \o slot \o " with " \o provider
                           \o ". Your booking number is " \o new_booking \o ".")
         ELSE IF SlotDate(slot) = NoDate
              THEN \* line 39: strptime of a slot text without minutes
                   Reply(df, "booking", "raised", "ValueError")
              ELSE
                LET all_slots == NextSlotsFrom(df, provider, SlotDate(slot))
                IN IF all_slots # <<>>
                   THEN Reply(df, "booking", "slot taken",
                              "Sorry, the selected time slot is already booked. The next available slot is on "
                                \o all_slots[1] \o ". Would you like to book that instead?")
                   ELSE Reply(df, "booking", "no slots",
                              "Sorry, no available slots found in the next 7 days.")

\* A cancellation that marks every row of the file.
CancelBranchEveryRow(df, f) ==
    IF f.booking_numbers = <<>>
    THEN Reply(df, "cancel", "no number",
               "Please provide the booking number to cancel your appointment.")
    ELSE LET number == f.booking_numbers[1]
         IN IF \E k \in DOMAIN df : df[k].booking_number = number
            THEN Reply([k \in DOMAIN df |->
                          [df[k] EXCEPT !.booking_status = "Cancelled"]],
                       "cancel", "cancelled",
                       "Your appointment " \o number \o " has been cancelled.")
            ELSE Reply(df, "cancel", "not found",
                       "Booking " \o number \o " not found.")

\* Lines 125-136, the branch of 'cancel'.
CancelBranch(df, f) ==
    IF f.booking_numbers = <<>>
    THEN Reply(df, "cancel", "no number",
               "Please provide the booking number to cancel your appointment.")
    ELSE LET number == f.booking_numbers[1]
         IN IF \E k \in DOMAIN df : df[k].booking_number = number
            THEN Reply([k \in DOMAIN df |->
                          IF df[k].booking_number = number
                          THEN [df[k] EXCEPT !.booking_status = "Cancelled"]
                          ELSE df[k]],
                       "cancel", "cancelled",
                       "Your appointment " \o number \o " has been cancelled.")
            ELSE Reply(df, "cancel", "not found",
                       "Booking " \o number \o " not found.")

\* Lines 139-153, the branch of 'available' and 'slot'.
SlotsBranch(df, f) ==
    IF f.dates # <<>> /\ f.providers # <<>>
    THEN LET provider == Title(f.providers[1])
         IN IF ParseDate(f.dates[1]) = NoDate
            THEN Reply(df, "available slots", "raised", "ValueError")
            ELSE LET available_slots == DayAvailableSlots(df, provider, f.dates[1])
                 IN IF available_slots # <<>>
                    THEN Reply(df, "available slots", "listed",
                               "Available slots for " \o f.dates[1] \o " with "
                                 \o provider \o " are: " \o Join(available_slots))
                    ELSE Reply(df, "available slots", "none",
                               "No available slots found for " \o f.dates[1]
                                 \o " with " \o provider)
    ELSE Reply(df, "available slots", "missing details",
               "Please specify the date and provider name to check available slots.")

\* Lines 156-165, the branch of 'booking' and 'status'.
StatusBranch(df, f) ==
    IF f.booking_numbers = <<>>
    THEN Reply(df, "status", "no number", "Please provide a booking number")
    ELSE LET number == f.booking_numbers[1]
             found == {k \in DOMAIN df : df[k].booking_number = number}
         IN IF found # {}
            THEN Reply(df, "status", "reported",
                       "Booking " \o number \o " is " \o
                         df[CHOOSE k \in found : \A j \in found : k <= j].booking_status)
            ELSE Reply(df, "status", "not found",
                       "Booking " \o number \o " not found")

HelpText ==
    "I can help you with:\n1. Booking appointments (e.g., 'book appointment with Dr. Smith on 2024-03-20 10:00 AM')\n2. Cancelling appointments (e.g., 'cancel booking B001')\n3. Checking booking status (e.g., 'what's the status of booking B001')\n4. Finding available slots (e.g., 'show available slots for Dr. Smith on 2024-03-20')\nPlease let me know what you'd like to do."

\* process_query, lines 71-182: the first branch whose words occur in the
\* lowered input runs, in the order of the if / elif chain.
process_query(df, user_input) ==
    LET f == Features(user_input)
        Has(word) == word \in f.words
    IN IF Has("book") \/ Has("schedule") THEN BookingBranch(df, f)
       ELSE IF Has("cancel") THEN CancelBranch(df, f)
       ELSE IF Has("available") /\ Has("slot") THEN SlotsBranch(df, f)
       ELSE IF Has("booking") /\ Has("status") THEN StatusBranch(df, f)
       ELSE IF Has("appointments") \/ Has("bookings")
            THEN Reply(df, "list", "counted",
                       "There are " \o Str(Len(df)) \o " total bookings, "
                         \o Str(Cardinality({k \in DOMAIN df :
                                df[k].booking_status = "Confirmed"}))
                         \o " are confirmed")
       ELSE Reply(df, "help", "help", HelpText)

-----------------------------------------------------------------------------
(* SpecApp: process_query calls on demo.csv *)

DemoRow(booking_number, provider, status, slot) ==
    [booking_number |-> booking_number,
     service_provider_name |-> provider,
     booking_status |-> status,
     time_slot |-> slot,
     service_provider_number |-> "+1-555-0101"]

\* demo.csv at the start: absent (load_appointments then yields an empty
\* frame), or holding one or two bookings with Dr. Smith.
DemoStores ==
    {<<>>,
     <<DemoRow("B001", "Dr. Smith", "Confirmed", "2024-03-20 10:00 AM")>>,
     <<DemoRow("B001", "Dr. Smith", "Confirmed", "2024-03-20 10:00 AM"),
       DemoRow("B002", "Dr. Smith", "Cancelled", "2024-03-20 09:00 AM")>>}

InitApp ==
    /\ users = <<>>
    /\ time_slots = <<>>
    /\ appointments = <<>>
    /\ procs = [p \in Procs |-> IdleProc]
    /\ input = NoInput
    /\ last = [op |-> "init"]
    /\ ncalls = 0
    /\ bookings \in DemoStores
    /\ outbox = <<>>

\* One call of process_query: load_appointments, the branch, and
\* save_appointments where the branch saves.
ProcessQuery ==
    /\ ncalls < MaxQueries
    /\ \E user_input \in Queries :
        LET out == process_query(bookings, user_input)
        IN /\ bookings' = out.df
           /\ last' = [op |-> "process_query", user_input |-> user_input,
                       intent |-> out.intent, outcome |-> out.outcome,
                       response |-> out.response]
    /\ ncalls' = ncalls + 1
    /\ UNCHANGED <<users, time_slots, appointments, procs, input, outbox>>

NextApp == ProcessQuery

SpecApp == InitApp /\ [][NextApp]_vars

-----------------------------------------------------------------------------
(* The voice path: VoiceHandler.process_voice_command of                   *)
(* src/voice/speech_recognition.py and AppointmentUI.process_voice_booking *)
(* of src/ui/interface.py. Day 0 of the model is Wednesday 2024-03-20.     *)

\* datetime.now().date() / datetime.date.today()
Today == 0

\* table providers: id -> name
ProviderName(provider_id) ==
    CASE provider_id = 1 -> "Dr. Smith"
      [] provider_id = 2 -> "Dr. Lee"

\* What process_audio_file hears (lowered by line 47), and of each text
\* what the string operations of extract_appointment_details find in it:
\*   contains    the words k of lines 138-148 and 153 with  k in text
\*   after_with  text.split('with')[1].split()
\*   dr          'dr' in after_with[0]
\*   after_dr    text.split('with')[1].split('dr')[1].strip()
UtteranceTable == <<
    [text |-> "book an appointment with smith tomorrow morning",
     contains |-> {"with", "tomorrow", "morning"},
     after_with |-> <<"smith", "tomorrow", "morning">>, dr |-> FALSE, after_dr |-> ""],
    [text |-> "tomorrow morning book me in with dr smith",
     contains |-> {"with", "tomorrow", "morning"},
     after_with |-> <<"dr", "smith">>, dr |-> TRUE, after_dr |-> "smith"],
    [text |-> "book an appointment with dr smith tomorrow morning",
     contains |-> {"with", "tomorrow", "morning"},
     after_with |-> <<"dr", "smith", "tomorrow", "morning">>, dr |-> TRUE, after_dr |-> "smith tomorrow morning"],
    [text |-> "book with lee tomorrow afternoon",
     contains |-> {"with", "tomorrow", "afternoon"},
     after_with |-> <<"lee", "tomorrow", "afternoon">>, dr |-> FALSE, after_dr |-> ""],
    [text |-> "book with jones today evening",
     contains |-> {"with", "today", "evening"},
     after_with |-> <<"jones", "today", "evening">>, dr |-> FALSE, after_dr |-> ""],
    [text |-> "book with smith day after tomorrow in the evening",
     contains |-> {"with", "tomorrow", "day after tomorrow", "evening"},
     after_with |-> <<"smith", "day", "after", "tomorrow", "in", "the", "evening">>, dr |-> FALSE, after_dr |-> ""],
    [text |-> "book with lee today or tomorrow morning",
     contains |-> {"with", "today", "tomorrow", "morning"},
     after_with |-> <<"lee", "today", "or", "tomorrow", "morning">>, dr |-> FALSE, after_dr |-> ""],
    [text |-> "book a visit tomorrow morning",
     contains |-> {"tomorrow", "morning"},
     after_with |-> <<>>, dr |-> FALSE, after_dr |-> ""],
    [text |-> "book with smith in the morning",
     contains |-> {"with", "morning"},
     after_with |-> <<"smith", "in", "the", "morning">>, dr |-> FALSE, after_dr |-> ""],
    [text |-> "book with smith tomorrow",
     contains |-> {"with", "tomorrow"},
     after_with |-> <<"smith", "tomorrow">>, dr |-> FALSE, after_dr |-> ""],
    [text |-> "tomorrow morning i want to book with",
     contains |-> {"with", "tomorrow", "morning"},
     after_with |-> <<>>, dr |-> FALSE, after_dr |-> ""]>>

Utterances == {UtteranceTable[k].text : k \in DOMAIN UtteranceTable}

\* audio is None (interface.py line 19); process_audio_file returned None
NoAudio == "<no audio>"
NoText == "<not understood>"

\* date_keywords, lines 138-142
KeywordDate(keyword) ==
    CASE keyword = "today" -> Today
      [] keyword = "tomorrow" -> Today + 1
      [] keyword = "day after tomorrow" -> Today + 2

\* extract_appointment_details, lines 136-207. A dict is searched in the
\* order its keys were written; split()[0] of line 154 raises IndexError
\* when nothing follows 'with', which line 201 catches.
extract_appointment_details(text) ==
    LET u == UtteranceTable[CHOOSE k \in DOMAIN UtteranceTable :
                                UtteranceTable[k].text = text]
        date_keywords == <<"today", "tomorrow", "day after tomorrow">>
        time_mappings == <<"morning", "afternoon", "evening">>
        default_time == [morning |-> "9 AM", afternoon |-> "2 PM",
                         evening |-> "5 PM"]
        Hits(keys) == {i \in DOMAIN keys : keys[i] \in u.contains}
        FirstHit(keys) ==
            keys[CHOOSE i \in Hits(keys) : \A j \in Hits(keys) : i <= j]
        provider == IF "with" \notin u.contains THEN ""
                    ELSE IF u.dr THEN "Dr. " \o u.after_dr
                    ELSE u.after_with[1]
    IN IF "with" \in u.contains /\ u.after_with = <<>>
       THEN [success |-> FALSE,
             message |-> "I couldn't understand the appointment details. Please try again with a clear provider name, date, and time."]
       ELSE IF provider = ""
       THEN [success |-> FALSE,
             message |-> "Please specify a doctor's name. For example, 'Book an appointment with Dr. Smith'"]
       ELSE IF Hits(date_keywords) = {}
       THEN [success |-> FALSE,
             message |-> "Please specify a date. You can say 'today', 'tomorrow', or 'day after tomorrow'"]
       ELSE IF Hits(time_mappings) = {}
       THEN [success |-> FALSE,
             message |-> "Please specify a time. You can say 'morning', 'afternoon', or 'evening'"]
       ELSE [success |-> TRUE, provider |-> provider,
             date |-> KeywordDate(FirstHit(date_keywords)),
             time |-> default_time[FirstHit(time_mappings)]]

\* ServiceProvider.name.ilike('%' + provider_name + '%'): the pairs of a
\* provider's name and a text of the model that occurs in it, case ignored.
ILikePairs ==
    {<<"Dr. Smith", "smith">>, <<"Dr. Smith", "Dr. smith">>,
     <<"Dr. Smith", "Dr. Smith">>, <<"Dr. Lee", "lee">>, <<"Dr. Lee", "Dr. Lee">>}

\* get_provider_id, scheduler.py lines 244-256: the id of the first match,
\* 0 for None.
get_provider_id(provider_name) ==
    LET hits == {id \in Providers :
                    <<ProviderName(id), provider_name>> \in ILikePairs}
    IN IF hits = {} THEN 0
       ELSE CHOOSE id \in hits : \A other \in hits : id <= other

\* strftime('%I:%M %p') of a clock time in minutes
ClockStr(c) ==
    LET h12 == IF (c \div 60) % 12 = 0 THEN 12 ELSE (c \div 60) % 12
    IN Digit(h12 \div 10) \o Digit(h12 % 10) \o ":"
         \o Digit((c % 60) \div 10) \o Digit(c % 10)
         \o (IF c < 12 * 60 THEN " AM" ELSE " PM")

\* VoiceResponse.generate_availability_response, voice_response.py lines
\* 59-67, for a result that is not available; format_time is
\* strftime("%I:%M %p on %A, %B %d").
AvailabilityResponse(availability) ==
    LET Weekday(d) ==
            CASE (d + 2) % 7 = 0 -> "Monday" [] (d + 2) % 7 = 1 -> "Tuesday"
              [] (d + 2) % 7 = 2 -> "Wednesday" [] (d + 2) % 7 = 3 -> "Thursday"
              [] (d + 2) % 7 = 4 -> "Friday" [] (d + 2) % 7 = 5 -> "Saturday"
              [] (d + 2) % 7 = 6 -> "Sunday"
        format_time(t) == ClockStr(Clock(t)) \o " on " \o Weekday(Date(t))
                            \o ", March " \o Str(20 + Date(t))
        alt == availability.alternative_slots
        n == IF Len(alt) < 3 THEN Len(alt) ELSE 3
        Item(i) == Digit(i) \o ". " \o format_time(alt[i].start_time) \o ", "
        items == IF n = 1 THEN Item(1)
                 ELSE IF n = 2 THEN Item(1) \o Item(2)
                 ELSE Item(1) \o Item(2) \o Item(3)
    IN IF alt # <<>>
       THEN "I'm sorry, but that slot isn't available. Here are some alternative times: "
              \o items \o "Would you like me to book any of these slots?"
       ELSE "I'm sorry, but that slot isn't available. There are no alternative slots available for this day. Would you like to try a different date?"

\* What a call leaves behind: the tables, the confirmations sent, and what
\* it returned, or the exception it raised.
VoiceOutcome(st, sent, raised, result) ==
    [users |-> st.users, time_slots |-> st.time_slots,
     appointments |-> st.appointments, outbox |-> sent,
     raised |-> raised, result |-> result]

\* process_voice_command, speech_recognition.py lines 55-130, on the text
\* process_audio_file returned: the outcomes it can end in on the store st.
\* When the suggestion is available, generate_availability_response reads
\* slot['provider_name'], a key find_optimal_slot does not put into its
\* dict: KeyError leaves the method before the booking of lines 112-125.
process_voice_command(st, text) ==
    IF text = NoText
    THEN {VoiceOutcome(st, <<>>, FALSE,
            [success |-> FALSE,
             message |-> "Could not understand audio. Please speak clearly and try again."])}
    ELSE
    LET details == extract_appointment_details(text)
        provider_id == get_provider_id(details.provider)
    IN IF ~details.success
       THEN {VoiceOutcome(st, <<>>, FALSE, details)}
       ELSE IF provider_id = 0
       THEN {VoiceOutcome(st, <<>>, FALSE,
               [success |-> FALSE,
                message |-> "Sorry, I couldn't find " \o details.provider
                              \o " in our system."])}
       ELSE
         {LET availability == suggest_slots(st.time_slots, provider_id,
                                            details.date, details.time,
                                            alternative_slots)
          IN IF availability.available
             THEN VoiceOutcome(st, <<>>, TRUE, "'provider_name'")
             ELSE VoiceOutcome(st, <<>>, FALSE,
                    [success |-> FALSE,
                     message |-> AvailabilityResponse(availability),
                     alternatives |-> availability.alternative_slots]) :
          alternative_slots \in find_alternative_slots(st.time_slots,
                                    provider_id, details.date, WindowDays)}

\* interface.py lines 36-52: the date that the text names when today is the
\* day today, NoTime when the lookup days[day_name] raises KeyError and
\* line 52 returns. Day 0 is a Wednesday, so today.weekday() is
\* (today + 2) % 7; day_name is the text without 'next '.
VoiceDateSameDay(date, today) ==
    LET Ahead(weekday) == IF weekday - ((today + 2) % 7) < 0
                          THEN weekday - ((today + 2) % 7) + 7
                          ELSE weekday - ((today + 2) % 7)
    IN CASE date = "tomorrow" -> today + 1
         [] date = "today" -> today
         [] date \in {"monday", "next monday"} -> today + Ahead(0)
         [] date \in {"tuesday", "next tuesday"} -> today + Ahead(1)
         [] date \in {"wednesday", "next wednesday"} -> today + Ahead(2)
         [] date \in {"thursday", "next thursday"} -> today + Ahead(3)
         [] date \in {"friday", "next friday"} -> today + Ahead(4)
         [] OTHER -> NoTime

VoiceDate(date, today) ==
    LET Ahead(weekday) == IF weekday - ((today + 2) % 7) <= 0
                          THEN weekday - ((today + 2) % 7) + 7
                          ELSE weekday - ((today + 2) % 7)
    IN CASE date = "tomorrow" -> today + 1
         [] date = "today" -> today
         [] date \in {"monday", "next monday"} -> today + Ahead(0)
         [] date \in {"tuesday", "next tuesday"} -> today + Ahead(1)
         [] date \in {"wednesday", "next wednesday"} -> today + Ahead(2)
         [] date \in {"thursday", "next thursday"} -> today + Ahead(3)
         [] date \in {"friday", "next friday"} -> today + Ahead(4)
         [] OTHER -> NoTime

\* NotificationSystem.send_confirmation, notifier.py lines 13-32: the mail
\* handed to _send_email, which prints it and returns True.
send_confirmation(sent, appointment_details) ==
    Append(sent, appointment_details)

\* interface.py lines 54-90, with the provider and the date found.
VoiceBookingTail(st, sent, details, provider_id, preferred_date) ==
    LET optimal_slot == find_optimal_slot(st.time_slots, provider_id,
                                          preferred_date, details.time)
        out == BookOutcome("scheduler", st.users, st.time_slots,
                           st.appointments, "Voice Booking User",
                           "voice@example.com", provider_id,
                           optimal_slot.slot_id)
        booking_result == out.result
    IN IF optimal_slot = None
       THEN VoiceOutcome(st, sent, FALSE,
              "Sorry, no available slots found for " \o details.provider
                \o " on " \o DateStr(20 + preferred_date)
                \o ". Please try a different date or time.")
       ELSE IF booking_result.success
       THEN VoiceOutcome(out,
              send_confirmation(sent,
                  [email |-> "voice@example.com",
                   provider |-> details.provider,
                   date |-> booking_result.details.date,
                   time |-> booking_result.details.time]),
              FALSE, "Great! I've booked your appointment")
       ELSE VoiceOutcome(out, sent, FALSE,
              "Sorry, I couldn't book the appointment: "
                \o booking_result.message)

\* interface.py lines 28-52, on a result of process_voice_command with
\* success = True: such a result is the dict of book_appointment, whose
\* details hold the provider's name and the date and time as
\* strftime('%Y-%m-%d') and strftime('%I:%M %p') wrote them.
VoiceBookingRest(st, sent, result) ==
    LET details == [provider |-> ProviderName(result.details.provider),
                    date |-> DateStr(20 + result.details.date),
                    time |-> ClockStr(result.details.time)]
        provider_id == get_provider_id(details.provider)
    IN IF provider_id = 0
       THEN VoiceOutcome(st, sent, FALSE,
              "Sorry, I couldn't find " \o details.provider \o " in our system.")
       ELSE IF VoiceDate(details.date, Today) = NoTime
       THEN VoiceOutcome(st, sent, FALSE,
              "Sorry, I couldn't understand the date. Please try again.")
       ELSE VoiceBookingTail(st, sent, details, provider_id,
                             VoiceDate(details.date, Today))

\* A handler in which the command books a slot of the provider and the
\* handler then books another one.
process_voice_booking_books_twice(st, sent, heard) ==
    IF heard \in {NoAudio, NoText}
    THEN {VoiceOutcome(st, sent, FALSE, "Please record your voice first.")}
    ELSE
    LET details == extract_appointment_details(heard)
        free == IF details.success
                THEN {s \in DOMAIN st.time_slots :
                        /\ st.time_slots[s].is_available
                        /\ st.time_slots[s].provider_id
                             = get_provider_id(details.provider)}
                ELSE {}
        Book(store, user_email, s) ==
            BookOutcome("scheduler", store.users, store.time_slots,
                        store.appointments, "User", user_email,
                        st.time_slots[s].provider_id, s)
    IN IF Cardinality(free) < 2
       THEN {VoiceOutcome(st, sent, FALSE, "Sorry, no available slots found")}
       ELSE {VoiceOutcome(Book(Book(st, "user@example.com", s1),
                               "voice@example.com", s2),
                          sent, FALSE, "Great! I've booked your appointment") :
             <<s1, s2>> \in {pair \in free \X free : pair[1] # pair[2]}}

\* process_voice_booking, interface.py lines 15-93: the outcomes of one
\* call, result being the text returned.
process_voice_booking(st, sent, heard) ==
    IF heard = NoAudio
    THEN {VoiceOutcome(st, sent, FALSE, "Please record your voice first.")}
    ELSE {IF c.raised
          THEN VoiceOutcome(c, sent, FALSE,
                 "Error processing voice: " \o c.result \o ". Please try again.")
          ELSE IF ~c.result.success
          THEN VoiceOutcome(c, sent, FALSE, c.result.message)
          ELSE VoiceBookingRest(c, sent, c.result) :
          c \in process_voice_command(st, heard)}

-----------------------------------------------------------------------------
(* SpecVoice: process_voice_booking calls on the stores of SpecSuggest *)

ProcessVoiceBooking ==
    \E heard \in Utterances \cup {NoAudio, NoText} :
      \E out \in process_voice_booking(
                     [users |-> users, time_slots |-> time_slots,
                      appointments |-> appointments], outbox, heard) :
        /\ users' = out.users
        /\ time_slots' = out.time_slots
        /\ appointments' = out.appointments
        /\ outbox' = out.outbox
        /\ last' = [op |-> "process_voice_booking", heard |-> heard,
                    details |-> IF heard \in Utterances
                                THEN extract_appointment_details(heard)
                                ELSE None,
                    response |-> out.result]
        /\ UNCHANGED <<procs, input, ncalls, bookings>>

NextVoice == ProcessVoiceBooking

SpecVoice == InitSuggest /\ [][NextVoice]_vars

-----------------------------------------------------------------------------
(* SpecVoiceDate: the date parse of process_voice_booking, lines 36-52,    *)
(* applied to the texts of a date on each day of a week                    *)

InitVoiceDate ==
    /\ input \in [today : 0..6,
                  date : {"today", "tomorrow", "2024-03-21",
                          "monday", "tuesday", "wednesday", "thursday",
                          "friday", "saturday", "sunday",
                          "next monday", "next tuesday", "next wednesday",
                          "next thursday", "next friday", "next saturday",
                          "next sunday"}]
    /\ users = <<>>
    /\ time_slots = SeedSlots
    /\ appointments = <<>>
    /\ procs = [p \in Procs |-> IdleProc]
    /\ last = [op |-> "init"]
    /\ ncalls = 0
    /\ bookings = <<>>
    /\ outbox = <<>>

ParseVoiceDate ==
    /\ last' = [op |-> "parse date", today |-> input.today,
                date |-> input.date,
                preferred_date |-> VoiceDate(input.date, input.today)]
    /\ UNCHANGED <<users, time_slots, appointments, procs, input, ncalls,
                   bookings, outbox>>

NextVoiceDate == ParseVoiceDate

SpecVoiceDate == InitVoiceDate /\ [][NextVoiceDate]_vars

-----------------------------------------------------------------------------
(* Properties of book_appointment run to completion (Spec) *)

AppointmentsOf(slot_id) ==
    {k \in DOMAIN appointments : appointments[k].slot_id = slot_id}

LastBooking == last.op = "book_appointment"

\* C2: after any sequence of book_appointment calls run one at a time, every
\* time slot has at most one Appointment created from it, and every slot an
\* Appointment was created from has is_available = false.
C2_OneAppointmentPerSlot ==
    \A slot_id \in DOMAIN time_slots :
        /\ Cardinality(AppointmentsOf(slot_id)) <= 1
        /\ AppointmentsOf(slot_id) # {} => ~time_slots[slot_id].is_available

\* A second call asked for a slot an earlier call had booked, and was refused.
C2_Witness ==
    /\ LastBooking
    /\ last.result.message = MsgNoLongerAvailable
    /\ AppointmentsOf(last.slot_id) # {}

\* C3: book_appointment (scheduler.py) called for a slot that does not exist
\* or whose is_available is false returns {success: false, message:
\* 'Selected slot is no longer available'}, creates no Appointment and
\* changes no is_available flag; the only store change it can make is the
\* creation of the user record of an email not seen before.
C3_RefusalChangesNoSlot ==
    [][ ( /\ last'.op = "book_appointment"
          /\ ncalls' = ncalls + 1
          /\ last'.impl = "scheduler"
          /\ \/ last'.slot_id \notin DOMAIN time_slots
             \/ ~time_slots[last'.slot_id].is_available )
        => /\ last'.result = [type |-> "dict", success |-> FALSE,
                              message |-> MsgNoLongerAvailable]
           /\ appointments' = appointments
           /\ time_slots' = time_slots
           /\ \/ users' = users
              \/ /\ \A i \in DOMAIN users : users[i].email # last'.user_email
                 /\ Len(users') = Len(users) + 1
                 /\ SubSeq(users', 1, Len(users)) = users
                 /\ users'[Len(users')].email = last'.user_email ]_vars

\* The refused call is the one that created the second user.
C3_Witness ==
    /\ LastBooking
    /\ last.impl = "scheduler"
    /\ last.result.message = MsgNoLongerAvailable
    /\ ncalls = 2
    /\ Len(users) = 2
    /\ users[2].email = last.user_email
    /\ Len(appointments) = 1

\* C4: after any sequence of book_appointment calls, successful or not, the
\* store holds at most one User per email: a call with an email leaves a
\* user of that email in the store, and the Appointment of a successful call
\* carries the id of that one user.
C4_OneUserPerEmail ==
    /\ \A i, j \in DOMAIN users :
           users[i].email = users[j].email => i = j
    /\ \A i, j \in DOMAIN users :
           users[i].id = users[j].id => i = j
    /\ (LastBooking /\ ~MissingField(last.impl, last.slot_id))
         => \E i \in DOMAIN users : users[i].email = last.user_email
    /\ (LastBooking /\ IsSuccess(last.result))
         => \E i \in DOMAIN users :
               /\ users[i].email = last.user_email
               /\ appointments[Len(appointments)].user_id = users[i].id

\* Two bookings under one email and two names share the user of the first.
C4_Witness ==
    /\ LastBooking
    /\ IsSuccess(last.result)
    /\ Len(appointments) = 2
    /\ Len(users) = 1
    /\ appointments[1].user_id = appointments[2].user_id
    /\ users[1].name # last.user_name

-----------------------------------------------------------------------------
(* Properties of concurrent book_appointment calls (SpecConc) *)

\* C1: when two book_appointment calls for the same slot id run concurrently,
\* their store reads and writes interleaved in any order, exactly one returns
\* success and the other the 'Selected slot is no longer available' failure;
\* no interleaving ends with two successes or two Appointments for the slot.
C1_ExactlyOneWins ==
    \A p, q \in Procs :
        ( /\ p # q
          /\ procs[p].pc = "done"
          /\ procs[q].pc = "done"
          /\ procs[p].slot_id = procs[q].slot_id
          /\ procs[p].slot_id \in SlotIds
          /\ SeedSlots[procs[p].slot_id].is_available )
        => /\ IsSuccess(procs[p].result) # IsSuccess(procs[q].result)
           /\ \/ procs[p].result.message = MsgNoLongerAvailable
              \/ procs[q].result.message = MsgNoLongerAvailable
           /\ Cardinality(AppointmentsOf(procs[p].slot_id)) <= 1

-----------------------------------------------------------------------------
(* Properties of get_available_slots (SpecSlots) *)

LastSlots == last.op = "get_available_slots"

\* Window k of the input is one the claims call considered: available, and
\* starting strictly later than the current time.
IsConsidered(k) ==
    /\ input.provider_schedule[k].is_available
    /\ input.provider_schedule[k].start_time > input.current_time

WindowLength(k) ==
    input.provider_schedule[k].end_time - input.provider_schedule[k].start_time

\* floor(L / D) for a considered window, nothing for any other
Expected(k) ==
    IF IsConsidered(k) THEN WindowLength(k) \div input.duration_minutes ELSE 0

\* The number of result slots that precede those of window k.
RECURSIVE Before(_)
Before(k) == IF k = 1 THEN 0 ELSE Before(k - 1) + Expected(k - 1)

\* C5: for every considered window of length L and every duration D > 0,
\* get_available_slots emits exactly floor(L/D) slots for the window, each
\* exactly D long, pairwise non-overlapping, each within [window start,
\* window end], the i-th starting at window start + i*D; a remainder shorter
\* than D is dropped.
C5_FloorManySlots ==
    LastSlots =>
      LET sched == input.provider_schedule
          D == input.duration_minutes
          n == Len(sched)
      IN /\ Len(last.result) = Before(n + 1)
         /\ \A k \in 1..n : IsConsidered(k) =>
              LET piece(i) == last.result[Before(k) + i + 1]
                  count == Expected(k)
              IN /\ count * D <= WindowLength(k)
                 /\ WindowLength(k) < (count + 1) * D
                 /\ \A i \in 0..(count - 1) :
                      /\ piece(i).start_time = sched[k].start_time + i * D
                      /\ piece(i).end_time - piece(i).start_time = D
                      /\ piece(i).duration = D
                      /\ sched[k].start_time <= piece(i).start_time
                      /\ piece(i).end_time <= sched[k].end_time
                 /\ \A i, j \in 0..(count - 1) :
                      i < j => piece(i).end_time <= piece(j).start_time

\* A considered window whose length is no multiple of the duration gave two
\* slots or more and lost its remainder.
C5_Witness ==
    /\ LastSlots
    /\ \E k \in DOMAIN input.provider_schedule :
         /\ IsConsidered(k)
         /\ Expected(k) >= 2
         /\ WindowLength(k) % input.duration_minutes # 0
    /\ Len(last.result) >= 2

\* C6: get_available_slots derives slots only from windows with
\* is_available = true and a start strictly later than the current time: an
\* unavailable window, or one that has begun (start <= now) even if it ends
\* later, contributes no slot; windows are emitted in input order, each
\* window's slots in ascending start time.
C6_OnlyFutureAvailableWindows ==
    LastSlots =>
      LET sched == input.provider_schedule
          n == Len(sched)
          \* the window each result slot was derived from
          WindowOf(r) == CHOOSE k \in 1..n :
                             Before(k) < r /\ r <= Before(k) + Expected(k)
      IN /\ Len(last.result) = Before(n + 1)
         /\ \A r \in DOMAIN last.result :
              /\ sched[WindowOf(r)].is_available
              /\ sched[WindowOf(r)].start_time > input.current_time
              /\ sched[WindowOf(r)].start_time <= last.result[r].start_time
              /\ last.result[r].end_time <= sched[WindowOf(r)].end_time
         /\ \A r, q \in DOMAIN last.result :
              r < q => /\ WindowOf(r) <= WindowOf(q)
                       /\ WindowOf(r) = WindowOf(q) =>
                              last.result[r].start_time < last.result[q].start_time

\* An available window that began at the current time and ends later gave
\* nothing, while the window after it gave its slots.
C6_Witness ==
    /\ LastSlots
    /\ Len(input.provider_schedule) = 2
    /\ input.provider_schedule[1].is_available
    /\ input.provider_schedule[1].start_time = input.current_time
    /\ input.provider_schedule[1].end_time > input.current_time + input.duration_minutes
    /\ IsConsidered(2)
    /\ Len(last.result) >= 2
    /\ last.result[1].start_time = input.provider_schedule[2].start_time

-----------------------------------------------------------------------------
(* Properties of the slot searches (SpecSuggest) *)

\* The available slots of the provider on the date, as the store holds them.
DaySlots(provider_id, preferred_date) ==
    {i \in DOMAIN time_slots :
        /\ time_slots[i].provider_id = provider_id
        /\ Date(time_slots[i].start_time) = preferred_date
        /\ time_slots[i].is_available}

ScoreOf(i, preferred_time) == Score(time_slots[i].start_time, preferred_time)

\* C10: find_optimal_slot returns None if and only if the store holds no
\* available slot for the provider on the date; otherwise it returns a slot
\* of that provider and date, available in the store, whose score is the
\* maximum over all such slots (the first in store order among equal
\* scores), together with that score.
C10_OptimalSlotIsBest ==
    last.op = "find_optimal_slot" =>
      LET S == DaySlots(last.provider_id, last.preferred_date)
      IN /\ (last.result = None) <=> (S = {})
         /\ last.result # None =>
              /\ last.result.slot_id \in S
              /\ last.result.score = ScoreOf(last.result.slot_id, last.preferred_time)
              /\ \A j \in S : ~Gt(ScoreOf(j, last.preferred_time), last.result.score)
              /\ \A j \in S : j < last.result.slot_id =>
                     Gt(last.result.score, ScoreOf(j, last.preferred_time))

\* C7: suggest_slots returns available = true (with the slot) if and only if
\* the highest score among the provider's available slots on the preferred
\* date strictly exceeds 0.8; for an exact clock time that is: if and only
\* if some such slot starts less than 15 minutes from the preferred time.
C7_AvailableIffTopScoreAboveThreshold ==
    last.op = "suggest_slots" =>
      LET S == DaySlots(last.provider_id, last.preferred_date)
          preferred == ParseSpecificTime(last.preferred_time)
          Near(i) == LET d == Clock(time_slots[i].start_time) - preferred
                     IN (IF d < 0 THEN 0 - d ELSE d) < 15
      IN /\ last.result.available
              <=> \E i \in S : Gt(ScoreOf(i, last.preferred_time), Threshold)
         /\ preferred # NoTime =>
              (last.result.available <=> \E i \in S : Near(i))
         /\ last.result.available => last.result.slot.slot_id \in S

\* C8: whenever suggest_slots returns available = false, its alternatives
\* list has at most 5 entries, ascends in start time, and every entry is a
\* slot of the requested provider that is available in the store; when more
\* than 5 qualify, the 5 earliest are returned: a slot of the provider that
\* is available, starts in the 7 days from the preferred date and is not
\* listed starts no earlier than the last of the 5 listed.
C8_AlternativesCappedAndAscending ==
    (last.op = "suggest_slots" /\ ~last.result.available) =>
      LET alt == last.result.alternative_slots
          listed == {alt[k].slot_id : k \in DOMAIN alt}
          Qualifies(i) ==
              /\ time_slots[i].provider_id = last.provider_id
              /\ time_slots[i].is_available
              /\ Date(time_slots[i].start_time) >= last.preferred_date
              /\ Date(time_slots[i].start_time) <= last.preferred_date + 6
      IN /\ Len(alt) <= 5
         /\ \A k, m \in DOMAIN alt :
              k < m => /\ alt[k].start_time <= alt[m].start_time
                       /\ alt[k].slot_id # alt[m].slot_id
         /\ \A k \in DOMAIN alt :
              /\ alt[k].slot_id \in DOMAIN time_slots
              /\ time_slots[alt[k].slot_id].provider_id = last.provider_id
              /\ time_slots[alt[k].slot_id].is_available
              /\ alt[k].provider_id = last.provider_id
              /\ alt[k].start_time = time_slots[alt[k].slot_id].start_time
              /\ alt[k].end_time = time_slots[alt[k].slot_id].end_time
         /\ \A i \in DOMAIN time_slots :
              (Qualifies(i) /\ i \notin listed) =>
                  /\ Len(alt) = 5
                  /\ alt[5].start_time <= time_slots[i].start_time

\* Six slots qualified and the list stopped at five.
C8_Witness ==
    /\ last.op = "suggest_slots"
    /\ ~last.result.available
    /\ Len(last.result.alternative_slots) = 5
    /\ Cardinality({i \in DOMAIN time_slots :
           /\ time_slots[i].provider_id = last.provider_id
           /\ time_slots[i].is_available
           /\ Date(time_slots[i].start_time) >= last.preferred_date
           /\ Date(time_slots[i].start_time) <= last.preferred_date + 6}) = 6

\* C9: every alternative slot returned by find_alternative_slots (default
\* window) starts within the 7 calendar days that begin with the preferred
\* date, on a date d with preferred_date <= d <= preferred_date + 6.
C9_AlternativesWithinSevenDays ==
    last.op = "find_alternative_slots" =>
      \A k \in DOMAIN last.result :
          /\ last.preferred_date <= Date(last.result[k].start_time)
          /\ Date(last.result[k].start_time) <= last.preferred_date + 6

\* C11: in find_optimal_slot with a preference that is not a parseable clock
\* time the call does not fail: when the provider has available slots on the
\* date a slot is returned, and its score is exactly 1 if the preference
\* names a band (morning 09:00-12:00, afternoon 13:00-17:00, evening
\* 17:00-20:00) and the slot starts inside it, and exactly 1/2 otherwise
\* (outside the named band, or no band named); it is never 0.
C11_BandScores ==
    (/\ last.op = "find_optimal_slot"
     /\ ParseSpecificTime(last.preferred_time) = NoTime
     /\ DaySlots(last.provider_id, last.preferred_date) # {}) =>
        /\ last.result # None
        /\ LET band == NamedBand(last.preferred_time)
               slot_time == Clock(last.result.start_time)
               inside == /\ band # <<>>
                         /\ band[1] <= slot_time
                         /\ slot_time <= band[2]
           IN /\ last.result.score = (IF inside THEN <<1, 1>> ELSE <<1, 2>>)
              /\ last.result.score[1] > 0

-----------------------------------------------------------------------------
(* Properties of exact-time scoring (SpecSuggest, SpecRank) *)

\* Minutes between a clock time and the start of a slot, dates ignored.
ClockDistance(start_time, preferred) ==
    LET d == Clock(start_time) - preferred
    IN IF d < 0 THEN 0 - d ELSE d

\* C12: in exact-time mode a slot farther in clock minutes from the
\* preferred time never scores higher than a closer one, a slot at zero
\* distance scores exactly 1 and every score is above 0. For
\* find_optimal_slot, which hands out the score of the best slot only: with a
\* parseable preferred time and slots to choose from, a scored slot is
\* returned, its score is above 0, it is exactly 1 when some slot starts at
\* the preferred time, and no slot at most as far from the preferred time as
\* the returned one scores lower than it.
C12_CloserScoresHigher ==
    LET preferred == ParseSpecificTime(last.preferred_time)
        S == DaySlots(last.provider_id, last.preferred_date)
        Dist(i) == ClockDistance(time_slots[i].start_time, preferred)
    IN (last.op = "find_optimal_slot" /\ preferred # NoTime /\ S # {}) =>
         /\ last.result # None
         /\ Gt(last.result.score, <<0, 1>>)
         /\ (\E i \in S : Dist(i) = 0) => Eq(last.result.score, <<1, 1>>)
         /\ \A i \in S :
              Dist(i) <= Dist(last.result.slot_id) =>
                  ~Gt(last.result.score, ScoreOf(i, last.preferred_time))

\* The same rule for rank_slots, which returns every slot with its score.
RankSlotsCloserScoresHigher ==
    (last.op = "rank_slots" /\ last.preferred_time # NoTime) =>
        LET r == last.result
            Dist(k) == ClockDistance(r[k].start_time, last.preferred_time)
        IN /\ Len(r) = Len(last.available_slots)
           /\ \A a, b \in DOMAIN r :
                Dist(a) <= Dist(b) => ~Gt(r[b].score, r[a].score)
           /\ \A a \in DOMAIN r :
                /\ Dist(a) = 0 => Eq(r[a].score, <<1, 1>>)
                /\ Gt(r[a].score, <<0, 1>>)

\* C13: every exact-time scoring routine gives a slot that starts m minutes
\* of clock time from the preferred time the score 1 / (1 + m/60), that is
\* 60 / (60 + m): 6/7 at m = 10 and 3/4 at m = 20. Stated for rank_slots,
\* whose result carries the score of every slot.
C13_ScoreIsSixtyOverSixtyPlusMinutes ==
    (last.op = "rank_slots" /\ last.preferred_time # NoTime) =>
        \A k \in DOMAIN last.result :
            LET m == ClockDistance(last.result[k].start_time,
                                   last.preferred_time)
            IN /\ Eq(last.result[k].score, <<60, 60 + m>>)
               /\ m = 10 => Eq(last.result[k].score, <<6, 7>>)
               /\ m = 20 => Eq(last.result[k].score, <<3, 4>>)

\* A fresh copy of the slots as they were before any scoring.
FreshCopy(slots) ==
    [k \in DOMAIN slots |-> [start_time |-> slots[k].start_time,
                             end_time |-> slots[k].end_time]]

\* C25: a scoring call is read-only: rank_slots leaves the list it was
\* given and every slot record of it as they were, no field added, so each
\* call on the same list returns what it would return on a fresh copy.
C25_RankSlotsIsReadOnly ==
    [][/\ input'.available_slots = input.available_slots
       /\ last'.result = rank_slots(FreshCopy(input.available_slots),
                                    last'.preferred_time)]_vars

-----------------------------------------------------------------------------
(* Properties of handle_conflicts (SpecConflicts) *)

\* The input positions of the accepted candidates.
Accepted == {last.resolved[k] : k \in DOMAIN last.resolved}

\* [s1, e1) and [s2, e2) overlap iff s1 < e2 and s2 < e1.
Overlap(a, b) == a.start_time < b.end_time /\ b.start_time < a.end_time

\* C14: the list handle_conflicts returns is made of candidates of the
\* input, none of them twice, and its members are pairwise non-overlapping
\* (half-open intervals: s1 < e2 and s2 < e1); candidates that merely touch
\* do not count as overlapping: of two candidates alone in the input that
\* touch, both are accepted.
C14_AcceptedPairwiseDisjoint ==
    last.op = "handle_conflicts" =>
        LET cands == input.appointments
            r == last.resolved
        IN /\ \A k \in DOMAIN r :
                /\ r[k] \in DOMAIN cands
                /\ last.result[k] = cands[r[k]]
           /\ Len(last.result) = Len(r)
           /\ \A k, m \in DOMAIN r :
                k # m => /\ r[k] # r[m]
                         /\ ~Overlap(cands[r[k]], cands[r[m]])
           /\ (Len(cands) = 2 /\ cands[1].end_time = cands[2].start_time) =>
                  Accepted = {1, 2}

\* Three candidates: the first and the third touch the ends of each other
\* and are both accepted, the second overlaps an accepted one and is left out.
C14_Witness ==
    /\ last.op = "handle_conflicts"
    /\ Len(input.appointments) = 3
    /\ input.appointments[1].end_time = input.appointments[3].start_time
    /\ Accepted = {1, 3}
    /\ Overlap(input.appointments[2], input.appointments[1])

\* C15 as stated: of every two candidates with equal priority that overlap
\* each other, the one first in the input is accepted and the later one is
\* not.
C15_FirstOfEqualPriorityWins ==
    last.op = "handle_conflicts" =>
        LET cands == input.appointments
        IN \A i, j \in DOMAIN cands :
            (i < j /\ cands[i].priority = cands[j].priority /\ Overlap(cands[i], cands[j]))
                => (i \in Accepted /\ j \notin Accepted)

\* C15, amended: of two candidates with equal priority that overlap each
\* other, never both are accepted, and the earlier one is accepted (and the
\* later one refused) unless the earlier one overlaps an accepted candidate
\* that comes before it in the order of decreasing priority: one of higher
\* priority, or one of equal priority earlier in the input. In that case the
\* earlier one is refused and the later one may be accepted.
C15_FirstWinsUnlessBlocked ==
    last.op = "handle_conflicts" =>
        LET cands == input.appointments
            Blocked(i) == \E h \in Accepted :
                            /\ Overlap(cands[h], cands[i])
                            /\ \/ cands[h].priority > cands[i].priority
                               \/ cands[h].priority = cands[i].priority /\ h < i
        IN \A i, j \in DOMAIN cands :
            (i < j /\ cands[i].priority = cands[j].priority /\ Overlap(cands[i], cands[j]))
                => /\ ~(i \in Accepted /\ j \in Accepted)
                   /\ ~Blocked(i) => (i \in Accepted /\ j \notin Accepted)
                   /\ Blocked(i) => i \notin Accepted

\* The earlier of two overlapping candidates of equal priority was refused
\* and the later one accepted.
C15_Witness ==
    /\ last.op = "handle_conflicts"
    /\ \E i, j \in DOMAIN input.appointments :
        /\ i < j
        /\ input.appointments[i].priority = input.appointments[j].priority
        /\ Overlap(input.appointments[i], input.appointments[j])
        /\ i \notin Accepted
        /\ j \in Accepted

\* h comes before i in the order of decreasing priority, the order of the
\* input among equal priorities.
Precedes(h, i) ==
    \/ input.appointments[h].priority > input.appointments[i].priority
    \/ /\ input.appointments[h].priority = input.appointments[i].priority
       /\ h < i

\* C24: handle_conflicts refuses a candidate only when it overlaps an
\* accepted candidate that precedes it in the stable order of decreasing
\* priority (so one whose priority is at least its own), accepts every
\* candidate that overlaps no accepted candidate before it, and always
\* accepts the candidate of highest priority, the first in the input among
\* equals.
C24_RefusedOnlyWhenBlocked ==
    last.op = "handle_conflicts" =>
        LET cands == input.appointments
        IN /\ \A i \in DOMAIN cands :
                i \notin Accepted <=>
                    \E h \in Accepted : /\ Precedes(h, i)
                                        /\ Overlap(cands[h], cands[i])
           /\ \A i \in DOMAIN cands :
                (\A h \in DOMAIN cands : h # i => Precedes(i, h))
                    => i \in Accepted

\* Three candidates, one refused: it overlaps an accepted candidate of
\* higher priority, and the third, which overlaps no accepted one, is in.
C24_Witness ==
    /\ last.op = "handle_conflicts"
    /\ Len(input.appointments) = 3
    /\ Cardinality(Accepted) = 2
    /\ \E i \in DOMAIN input.appointments : \E h \in Accepted :
          /\ i \notin Accepted
          /\ input.appointments[h].priority > input.appointments[i].priority
          /\ Overlap(input.appointments[h], input.appointments[i])

-----------------------------------------------------------------------------
(* Properties of process_query (SpecApp) *)

\* A query that names a date, a time and a provider.
Detailed(user_input) ==
    /\ Features(user_input).dates # <<>>
    /\ Features(user_input).times # <<>>
    /\ Features(user_input).providers # <<>>

RequestedProvider(user_input) == Title(Features(user_input).providers[1])

RequestedSlot(user_input) ==
    Features(user_input).dates[1] \o " " \o Upper(Features(user_input).times[1])

\* The rows of the store for the provider and the time slot, by status.
RowsOf(df, provider, slot, status) ==
    {k \in DOMAIN df : /\ df[k].service_provider_name = provider
                       /\ df[k].time_slot = slot
                       /\ df[k].booking_status = status}

\* A step that is a booking request for a provider and a time slot of which
\* the store holds a cancelled booking.
BookingRequestOfCancelledSlot ==
    /\ last'.op = "process_query"
    /\ ncalls' = ncalls + 1
    /\ last'.intent = "booking"
    /\ Detailed(last'.user_input)
    /\ RowsOf(bookings, RequestedProvider(last'.user_input),
              RequestedSlot(last'.user_input), "Cancelled") # {}

\* C16 as stated: after a booking has been cancelled its time slot does not
\* become bookable again; every later booking request for the same provider
\* and the same time slot is refused as already booked and adds no booking.
C16_CancelledSlotStaysTaken ==
    [][BookingRequestOfCancelledSlot =>
          /\ last'.outcome = "slot taken"
          /\ bookings' = bookings]_vars

\* C16, amended: a cancelled booking no longer holds its time slot. A later
\* booking request for the same provider and time slot is accepted, and adds
\* one Confirmed booking of that provider and slot, unless another booking
\* of the slot with status Confirmed exists; only then is it refused.
C16_CancelledSlotIsBookableAgain ==
    [][BookingRequestOfCancelledSlot =>
          LET provider == RequestedProvider(last'.user_input)
              slot == RequestedSlot(last'.user_input)
          IN IF RowsOf(bookings, provider, slot, "Confirmed") = {}
             THEN /\ last'.outcome = "booked"
                  /\ Len(bookings') = Len(bookings) + 1
                  /\ SubSeq(bookings', 1, Len(bookings)) = bookings
                  /\ Len(bookings') \in RowsOf(bookings', provider, slot,
                                               "Confirmed")
             ELSE /\ last'.outcome # "booked"
                  /\ bookings' = bookings]_vars

\* Booking B001 was cancelled and its slot then booked again.
C16_Witness ==
    /\ last.op = "process_query"
    /\ last.outcome = "booked"
    /\ \E k \in 1..(Len(bookings) - 1) :
        /\ bookings[k].booking_status = "Cancelled"
        /\ bookings[k].booking_number = "B001"
        /\ bookings[k].service_provider_name = bookings[Len(bookings)].service_provider_name
        /\ bookings[k].time_slot = bookings[Len(bookings)].time_slot

\* C17: each documented example command is dispatched to the intent it
\* illustrates: 'Cancel booking B001' to cancellation (after it B001, if it
\* exists, has status Cancelled), 'What's the status of booking B001?' to
\* status, 'Show available slots for Dr. Smith on 2024-03-20' to
\* available-slots and 'Book an appointment with Dr. Smith on 2024-03-20
\* 10:00 AM' to booking.
C17_ExamplesReachTheirIntent ==
    last.op = "process_query" =>
        /\ last.user_input = "Cancel booking B001" =>
              /\ last.intent = "cancel"
              /\ \A k \in DOMAIN bookings :
                    bookings[k].booking_number = "B001" =>
                        bookings[k].booking_status = "Cancelled"
        /\ last.user_input = "What's the status of booking B001?" =>
              last.intent = "status"
        /\ last.user_input = "Show available slots for Dr. Smith on 2024-03-20" =>
              last.intent = "available slots"
        /\ last.user_input = "Book an appointment with Dr. Smith on 2024-03-20 10:00 AM" =>
              last.intent = "booking"

\* C19 (text path): a booking request that names a provider of whom the
\* store holds no row does not raise and creates no booking; process_query
\* returns a message that the provider was not found.
C19_UnknownProviderReportsNotFound ==
    (/\ last.op = "process_query"
     /\ last.intent = "booking"
     /\ Detailed(last.user_input)
     /\ \A k \in DOMAIN bookings :
           bookings[k].service_provider_name # RequestedProvider(last.user_input)) =>
        /\ last.outcome # "raised"
        /\ last.outcome = "not found"

-----------------------------------------------------------------------------
(* Properties of suggest_slots while the store fails (SpecSuggest) *)

\* C18: when a store lookup inside suggest_slots raises (the slot query of
\* find_optimal_slot or of find_alternative_slots), suggest_slots does not
\* raise and returns the unavailable result with the message 'An error
\* occurred while searching for slots.' and no alternatives, not a 'no
\* available slots found' result.
C18_LookupFailureIsReportedAsError ==
    last.op = "suggest_slots, lookup raises" =>
        last.result = [available |-> FALSE,
                       message |-> "An error occurred while searching for slots.",
                       alternative_slots |-> <<>>]


-----------------------------------------------------------------------------
(* Properties of process_voice_booking (SpecVoice) *)

\* C20: in process_voice_booking a confirmation is dispatched only by a call
\* whose book_appointment committed: the call that adds a mail to the outbox
\* also adds the Appointment and leaves its slot with is_available = FALSE,
\* and no later step takes either back.
C20_ConfirmationOnlyAfterCommit ==
    [][/\ outbox' # outbox =>
            /\ Len(outbox') = Len(outbox) + 1
            /\ Len(appointments') = Len(appointments) + 1
            /\ \E s \in DOMAIN time_slots :
                 /\ time_slots[s].is_available
                 /\ ~time_slots'[s].is_available
                 /\ appointments'[Len(appointments')].datetime
                      = time_slots[s].start_time
       /\ \A a \in DOMAIN appointments :
            a \in DOMAIN appointments' /\ appointments'[a] = appointments[a]
       /\ \A s \in DOMAIN time_slots :
            ~time_slots[s].is_available => ~time_slots'[s].is_available]_vars

\* C28: every Appointment that book_appointment created has the provider_id
\* of the slot it was created from, the slot marked unavailable for it; a
\* call that names another provider than the slot's creates no Appointment.
C28_AppointmentHasProviderOfItsSlot ==
    \A a \in DOMAIN appointments :
        /\ ~time_slots[appointments[a].slot_id].is_available
        /\ appointments[a].provider_id
             = time_slots[appointments[a].slot_id].provider_id

\* The first intent, in the order booking, cancel, available slots, status,
\* list, help, whose trigger words occur in the lowered query.
FirstIntent(user_input) ==
    LET w == Features(user_input).words
    IN IF "book" \in w \/ "schedule" \in w THEN "booking"
       ELSE IF "cancel" \in w THEN "cancel"
       ELSE IF "available" \in w /\ "slot" \in w THEN "available slots"
       ELSE IF "booking" \in w /\ "status" \in w THEN "status"
       ELSE IF "appointments" \in w \/ "bookings" \in w THEN "list"
       ELSE "help"

\* C26: process_query runs one intent, the first whose trigger matches, and
\* changes the stored bookings in two outcomes only: a booking appends one
\* Confirmed row and changes no other row, a cancellation changes the
\* booking_status of the rows with the booking number given and nothing
\* else; every other outcome leaves the store as it was.
C26_OneIntentAndStoreFrame ==
    [][/\ last'.intent = FirstIntent(last'.user_input)
       /\ last'.outcome = "booked" =>
             /\ Len(bookings') = Len(bookings) + 1
             /\ SubSeq(bookings', 1, Len(bookings)) = bookings
             /\ bookings'[Len(bookings')].booking_status = "Confirmed"
             /\ last'.intent = "booking"
       /\ last'.outcome = "cancelled" =>
             /\ last'.intent = "cancel"
             /\ Len(bookings') = Len(bookings)
             /\ \A k \in DOMAIN bookings :
                   IF bookings[k].booking_number
                        = Features(last'.user_input).booking_numbers[1]
                   THEN bookings'[k] =
                          [bookings[k] EXCEPT !.booking_status = "Cancelled"]
                   ELSE bookings'[k] = bookings[k]
       /\ last'.outcome \notin {"booked", "cancelled"} =>
             bookings' = bookings]_vars

\* A cancellation of B001 in a store of two rows, of which the other row
\* keeps its status.
C26_Witness ==
    /\ last.op = "process_query"
    /\ last.outcome = "cancelled"
    /\ Len(bookings) = 2
    /\ bookings[1].booking_status = "Cancelled"
    /\ bookings[2].booking_status = "Confirmed"

\* The day and hour that the text of a time_slot names: the hour written as
\* strftime writes it ("10:00 AM"), without minutes ("10 AM") or without the
\* leading zero ("9:00 AM").
SlotInstant(time_slot) ==
    LET Meridiem(h) == IF h < 12 THEN "AM" ELSE "PM"
        H12(h) == IF h > 12 THEN h - 12 ELSE h
        Spellings(h) == {HourStr(h),
                         Str(H12(h)) \o " " \o Meridiem(h),
                         Str(H12(h)) \o ":00 " \o Meridiem(h)}
    IN CHOOSE dh \in MarchDays \X {9, 10, 11, 14, 15, 16} :
          \E t \in Spellings(dh[2]) : time_slot = DateStr(dh[1]) \o " " \o t

\* C27: after any sequence of process_query calls no two Confirmed bookings
\* are for the same provider at the same date and clock time, however the
\* time was written ('10 am' or '10:00 am').
C27_NoTwoConfirmedAtTheSameTime ==
    \A k, m \in DOMAIN bookings :
        (/\ k # m
         /\ bookings[k].booking_status = "Confirmed"
         /\ bookings[m].booking_status = "Confirmed"
         /\ bookings[k].service_provider_name = bookings[m].service_provider_name)
            => SlotInstant(bookings[k].time_slot) # SlotInstant(bookings[m].time_slot)

\* The part of C27 that holds: no two Confirmed bookings of a provider have
\* the same time_slot text.
NoTwoConfirmedWithTheSameText ==
    \A k, m \in DOMAIN bookings :
        (/\ k # m
         /\ bookings[k].booking_status = "Confirmed"
         /\ bookings[m].booking_status = "Confirmed"
         /\ bookings[k].service_provider_name = bookings[m].service_provider_name)
            => bookings[k].time_slot # bookings[m].time_slot

\* The last call was a booking request for a slot that the store holds as
\* Confirmed for the provider.
RefusedAsTaken ==
    /\ last.op = "process_query"
    /\ last.intent = "booking"
    /\ Detailed(last.user_input)
    /\ IsConfirmed(bookings, RequestedProvider(last.user_input),
                   RequestedSlot(last.user_input))

\* The slots the refusal may offer: no Confirmed booking of the provider,
\* later than the slot asked for, at most 7 days after its date.
LaterFreeSlots ==
    LET asked == SlotInstant(RequestedSlot(last.user_input))
    IN {dh \in MarchDays \X {9, 10, 11, 14, 15, 16} :
          /\ ~IsConfirmed(bookings, RequestedProvider(last.user_input),
                          SlotStr(dh[1], dh[2]))
          /\ dh[1] > asked[1] \/ (dh[1] = asked[1] /\ dh[2] > asked[2])
          /\ dh[1] <= asked[1] + 7}

\* C30: a booking refused because the slot is Confirmed for the provider
\* offers a next available slot that has no Confirmed booking of the
\* provider, is later than the slot asked for and within 7 days of its
\* date, and says that no slot was found only when there is none.
C30_NextSlotIsFreeAndLater ==
    RefusedAsTaken =>
        \/ \E dh \in LaterFreeSlots :
              last.response =
                "Sorry, the selected time slot is already booked. The next available slot is on "
                  \o SlotStr(dh[1], dh[2]) \o ". Would you like to book that instead?"
        \/ /\ LaterFreeSlots = {}
           /\ last.response = "Sorry, no available slots found in the next 7 days."

\* The part of C30 that holds when the refusal answers: the slot offered has
\* no Confirmed booking of the provider and lies on one of the 7 days from
\* the date asked for on.
OfferedSlotIsFree ==
    RefusedAsTaken /\ last.outcome = "slot taken" =>
        \E d \in MarchDays, h \in {9, 10, 11, 14, 15, 16} :
            /\ last.response =
                "Sorry, the selected time slot is already booked. The next available slot is on "
                  \o SlotStr(d, h) \o ". Would you like to book that instead?"
            /\ ~IsConfirmed(bookings, RequestedProvider(last.user_input),
                            SlotStr(d, h))
            /\ d >= SlotInstant(RequestedSlot(last.user_input))[1]
            /\ d < SlotInstant(RequestedSlot(last.user_input))[1] + 7

\* What an utterance holds: a word after 'with', one of the date keywords,
\* one of the periods of the day.
Heard == UtteranceTable[CHOOSE k \in DOMAIN UtteranceTable :
                            UtteranceTable[k].text = last.heard]

ProviderFound == "with" \in Heard.contains /\ Heard.after_with # <<>>

DateFound == Heard.contains \cap {"today", "tomorrow", "day after tomorrow"} # {}

TimeFound == Heard.contains \cap {"morning", "afternoon", "evening"} # {}

Extracted == last.op = "process_voice_booking" /\ last.heard \in Utterances

\* C21: extract_appointment_details succeeds exactly when the utterance holds
\* a provider, a date keyword and a period of the day, and otherwise returns
\* the prompt for the first of provider, date, time that is missing.
C21_PromptsForFirstMissingField ==
    Extracted =>
        /\ last.details.success <=> (ProviderFound /\ DateFound /\ TimeFound)
        /\ ~last.details.success =>
              last.details.message =
                IF ~ProviderFound
                THEN "Please specify a doctor's name. For example, 'Book an appointment with Dr. Smith'"
                ELSE IF ~DateFound
                THEN "Please specify a date. You can say 'today', 'tomorrow', or 'day after tomorrow'"
                ELSE "Please specify a time. You can say 'morning', 'afternoon', or 'evening'"

\* The part of C21 that holds: success exactly when all three are found, a
\* failure returned and never raised, and the prompt for the first missing
\* field whenever a word follows 'with' or the text has no 'with'.
ExtractionSucceedsIffAllFound ==
    Extracted =>
        /\ last.details.success <=> (ProviderFound /\ DateFound /\ TimeFound)
        /\ ~last.details.success /\ ProviderFound /\ ~DateFound =>
              last.details.message = "Please specify a date. You can say 'today', 'tomorrow', or 'day after tomorrow'"
        /\ "with" \notin Heard.contains =>
              last.details.message = "Please specify a doctor's name. For example, 'Book an appointment with Dr. Smith'"

\* C22: the date keyword found in the utterance resolves to its own date:
\* 'day after tomorrow' to today + 2, 'tomorrow' without it to today + 1,
\* 'today' alone to today.
C22_KeywordResolvesToItsOwnDate ==
    Extracted /\ last.details.success =>
        /\ "day after tomorrow" \in Heard.contains =>
              last.details.date = Today + 2
        /\ Heard.contains \cap {"today", "tomorrow", "day after tomorrow"}
              = {"tomorrow"} => last.details.date = Today + 1
        /\ Heard.contains \cap {"today", "tomorrow", "day after tomorrow"}
              = {"today"} => last.details.date = Today

\* days of interface.py lines 44-45, for a text with or without 'next '
NamedWeekday ==
    CASE last.date \in {"monday", "next monday"} -> 0
      [] last.date \in {"tuesday", "next tuesday"} -> 1
      [] last.date \in {"wednesday", "next wednesday"} -> 2
      [] last.date \in {"thursday", "next thursday"} -> 3
      [] last.date \in {"friday", "next friday"} -> 4
      [] OTHER -> NoTime

C29_OneRequestBooksAtMostOnce ==
    [][/\ Len(appointments') <= Len(appointments) + 1
       /\ Cardinality({s \in DOMAIN time_slots :
                          /\ time_slots[s].is_available
                          /\ ~time_slots'[s].is_available}) <= 1]_vars

\* A request that names a provider, a date and a period has been handled,
\* on a store where that provider has at least two slots to book, one of
\* them on the day asked for.
C29_Witness ==
    /\ last.op = "process_voice_booking"
    /\ last.heard \in Utterances
    /\ last.details.success
    /\ get_provider_id(last.details.provider) # 0
    /\ \E s, t \in DOMAIN time_slots :
          /\ s # t
          /\ time_slots[s].is_available /\ time_slots[t].is_available
          /\ time_slots[s].provider_id = get_provider_id(last.details.provider)
          /\ time_slots[t].provider_id = get_provider_id(last.details.provider)
          /\ Date(time_slots[s].start_time) = last.details.date

\* No call of process_voice_booking gets as far as line 64: the result of
\* process_voice_command never has success = True, because find_optimal_slot
\* returns None whenever the provider has slots on the day (lines 124-128 of
\* scheduler.py raise TypeError), so no Appointment is made and no
\* confirmation is dispatched on this path.
VoiceBookingNeverCommits ==
    [][/\ outbox' = outbox
       /\ appointments' = appointments
       /\ time_slots' = time_slots
       /\ users' = users]_vars

====
